---- MODULE Spec2Model ----
(***************************************************************************)
(* Request orchestration layer of the embers shape server:                 *)
(*   - ShapeCache      (server/app/cache/shape_cache.py)                   *)
(*   - PipelineMetrics (server/app/services/metrics.py)                    *)
(*   - PipelineOrchestrator (server/app/services/pipeline.py)              *)
(* The asyncio event loop runs one coroutine step at a time: every action  *)
(* below is the code between two suspension points (await) of one          *)
(* coroutine, or one step of a worker-pool thread.                         *)
(***************************************************************************)
EXTENDS Integers, Sequences, FiniteSets, TLC

\* ---------------------------------------------------------------- bounds
NumCallers == 3
MaxCalls == 3
\* generate() requests issued in one behaviour
MaxGenerateCalls == 2
MemoryCapacity == 1
MaxTime == 90
NumRequests == 2
\* pool threads inside the registry at once, and factory invocations in one behaviour
NumThreads == 2
MaxLoads == 3
\* map_masks_to_faces: pixels per view, faces of the mesh, masks of the first view
NumPixels == 2
NumFaces == 3
MaxMasks == 2
\* point samplers: part meshes, area of a mesh, point budget, faces and labels
\* of the labeled mesh
MaxParts == 4
MaxArea == 2
MaxPoints == 5
MaxMeshFaces == 2
MaxLabel == 2
\* Settings.generation_rate_limit_per_minute and generation_timeout_seconds,
\* scaled to the model
generation_rate_limit_per_minute == 1
generation_timeout_seconds == 30

\* ------------------------------------------------------ program constants
WindowSeconds == 60
DefaultRetryAfter == 5
MinRetryAfter == 1
DequeMaxLen == 500
max_points == 2048

Callers == 1..NumCallers
\* the detached _write_cache task of caller p is the coroutine p + NumCallers
Writers == (NumCallers + 1)..(2 * NumCallers)
Procs == Callers \cup Writers
WriterOf(p) == p + NumCallers
\* the coroutine of the startup task main._load_models_and_warm_cache
Preloader == NumCallers

\* the coroutines that call generate()
Requesters == 1..NumRequests

\* the clock advances in steps that divide the window
TickSteps == {30}
\* time that may pass between two clock reads of one event-loop step
ClockDrift == {0} \cup TickSteps

Max(a, b) == IF a >= b THEN a ELSE b
Min(a, b) == IF a <= b THEN a ELSE b

\* ------------------------------------------------------------ text model
\* A text is a sequence of whitespace-separated raw tokens.
Texts == { <<"horse">>, <<"The", "horses!">>, <<"cat">> }
\* the texts the callers of the cache pass in
CallTexts == { <<"The", "horses!">>, <<"cat">> }
\* the texts the callers of get() pass in: other spellings of the same concepts
GetTexts == { <<"horse">>, <<"cat">> }
\* the texts of generate() requests
GenTexts == { <<"horse">> }

_ARTICLES == {"a", "an", "the"}

\* str.lower(), one token at a time
Lower(w) ==
    CASE w = "The"    -> "the"
      [] w = "Horse"  -> "horse"
      [] OTHER        -> w

\* re.sub(r"[^\w\s]", "", text), one token at a time
StripPunct(w) ==
    CASE w = "horses!" -> "horses"
      [] w = "!"       -> ""
      [] OTHER         -> w

CleanToken(w) == StripPunct(Lower(w))

\* _lemmatizer.lemmatize(w): WordNet noun lemma
Lemmatize(w) ==
    CASE w = "horses" -> "horse"
      [] w = "cats"   -> "cat"
      [] OTHER        -> w

RECURSIVE MapSeq(_, _)
MapSeq(Op(_), s) ==
    IF s = <<>> THEN <<>> ELSE <<Op(Head(s))>> \o MapSeq(Op, Tail(s))

RECURSIVE FilterSeq(_, _)
FilterSeq(Keep(_), s) ==
    IF s = <<>> THEN <<>>
    ELSE (IF Keep(Head(s)) THEN <<Head(s)>> ELSE <<>>) \o FilterSeq(Keep, Tail(s))

NonEmptyToken(w) == w # ""
NotArticle(w) == w \notin _ARTICLES

\* mutant: the articles are not removed
normalize_key_KeepArticles(text) ==
    MapSeq(Lemmatize, FilterSeq(NonEmptyToken, MapSeq(CleanToken, text)))

normalize_key(text) ==
    LET cleaned == FilterSeq(NonEmptyToken, MapSeq(CleanToken, text))
        words   == MapSeq(Lemmatize, FilterSeq(NotArticle, cleaned))
    IN  IF words # <<>> THEN words ELSE cleaned

\* sha256(normalized)[:16]: a fixed digest per normalized text
_hash_key(normalized) ==
    CASE normalized = <<"dog">>   -> "cd6357efdd966de8"
      [] normalized = <<"cat">>   -> "77af778b51abd4a3"
      [] normalized = <<"horse">> -> "fd62862b6dc213be"
      [] normalized = <<"the">>   -> "b9776d7ddf459c9a"
      [] normalized = <<>>        -> "e3b0c44298fc1c14"
      [] OTHER                    -> "ffffffffffffffff"

\* the key of every text of the model, computed once
KeyTable == [t \in Texts \cup {<<>>} |-> _hash_key(normalize_key(t))]
KeyOf(t) == KeyTable[t]

Keys == { KeyOf(t) : t \in Texts }

\* ------------------------------------------------------------- templates
TEMPLATES ==
    [quadruped |-> <<"head", "body", "front_legs", "back_legs", "tail", "neck">>,
     default   |-> <<"body">>]

\* _NOUN_TO_TYPE.get(noun.strip().lower(), "default")
get_template(noun) ==
    LET normalized == MapSeq(Lower, noun)
        ttype == IF normalized \in {<<"horse">>, <<"dog">>, <<"cat">>}
                 THEN "quadruped" ELSE "default"
    IN  [template_type |-> ttype, part_names |-> TEMPLATES[ttype]]

num_parts(template) == Len(template.part_names)

\* ------------------------------------------------------------ responses
None == [kind |-> "none"]

Response(payload, ttype, names, pipeline) ==
    [kind |-> "resp", payload |-> payload, template_type |-> ttype,
     part_names |-> names, cached |-> FALSE, pipeline |-> pipeline]

SetValues == { Response("A", "quadruped", TEMPLATES["quadruped"], "partcrafter") }

\* a blob that an earlier process run left in the bucket
StoredBlob == Response("S", "quadruped", TEMPLATES["quadruped"], "partcrafter")

RateLimited(r) == [kind |-> "error", err |-> "RateLimited", retry_after |-> r]
Failure(e) == [kind |-> "error", err |-> e, retry_after |-> 0]

\* ---------------------------------------------------------------- state
VARIABLES
    bucket,          \* ShapeCache._bucket is set (durable tier configured and connected)
    memory,          \* ShapeCache._memory: LRU order, least recently used first
    storage,         \* blobs shapes/<key>.json of the bucket
    in_flight,       \* ShapeCache._in_flight: key -> event id, 0 when absent
    eventSet,        \* asyncio.Event objects that have been set
    nextEvent,       \* next fresh asyncio.Event
    memory_hits, storage_hits, misses,
    pc, op, text, ev, new_ev,        \* per coroutine: position and locals
    ret,             \* history: the last call that ended: its coroutine and what it returned or raised
    how,             \* history: the exit path of the last get() that ended
    completed,       \* history: the get() calls that have returned
    task,            \* per coroutine: the worker-pool future it awaits
    orphan,          \* storage reads still running in the pool after their awaiter was cancelled
    calls,           \* calls started so far
    now,             \* time.time(), in seconds
    generation_timestamps,   \* PipelineMetrics._generation_timestamps
    metrics,         \* PipelineMetrics counters
    models,          \* ModelRegistry._models: names of the loaded models
    orphanGen,       \* _generate_sync runs still in the pool after their request timed out
    starts,          \* history: the instants at which generation work was submitted
    lastEvent,       \* history: what the last step of a generate() call did, the
                     \* count its admission check read, and whether the step
                     \* called torch.cuda.empty_cache(),
    registry_models, \* ModelRegistry._models seen by the pool threads: name -> instance, 0 when absent
    worker,          \* per pool thread: its position in get_or_load / unload and its locals
    next_model,      \* the instance the next factory invocation builds
    factory_calls,   \* history: factory invocations per name since the name was last deleted
    handed,          \* history: the instances get_or_load returned per name since the name was last deleted
    bucket_name,     \* Settings.cache_bucket is not empty: a durable backend is configured
    skip_model_load, \* Settings.skip_model_load
    lifespan,        \* main.lifespan: "constructed" before cache.connect(), "serving" after
    reached,         \* history: _connect_sync built the client and the bucket handle
    probe,           \* history: the last answer of GET /health/ready
    mapper,          \* one run of map_masks_to_faces: its arguments, its position, its locals
    sampler,         \* one run of a point sampler: its arguments, its position, its locals
    stats_call,      \* one call of ShapeCache.stats: its position, its local total, its result
    keying,          \* one derivation of a cache key: the text, the position, the results
    client,          \* one rejected client: the rejection, what it was told, its retry
    tracker          \* ShapeCache._key_origins, and the set() calls made against it

registryVars == <<registry_models, worker, next_model, factory_calls, handed>>

\* the state of the components that are exercised on their own
healthVars == <<bucket_name, skip_model_load, lifespan, reached, probe>>

unitVars == <<registryVars, healthVars, mapper, sampler, stats_call, keying, client, tracker>>

\* what the steps of one component leave alone
exceptRegistry == <<healthVars, mapper, sampler, stats_call, keying, client, tracker>>
exceptHealth == <<registryVars, mapper, sampler, stats_call, keying, client, tracker>>
exceptMapper == <<registryVars, healthVars, sampler, stats_call, keying, client, tracker>>
exceptSampler == <<registryVars, healthVars, mapper, stats_call, keying, client, tracker>>
exceptKeying == <<registryVars, healthVars, mapper, sampler, stats_call, client, tracker>>
exceptClient == <<registryVars, healthVars, mapper, sampler, stats_call, keying, tracker>>
exceptTracker == <<registryVars, healthVars, mapper, sampler, stats_call, keying, client>>
exceptStats == <<registryVars, healthVars, mapper, sampler, keying, client, tracker>>

genVars == <<now, generation_timestamps, metrics, models, orphanGen, starts, lastEvent>>

vars == <<bucket, memory, storage, in_flight, eventSet, nextEvent,
          memory_hits, storage_hits, misses, pc, op, text, ev, new_ev,
          ret, how, completed, task, orphan, calls,
          now, generation_timestamps, metrics, models, orphanGen, starts, lastEvent,
          unitVars>>

\* the variables of the cache and of the orchestrator
baseVars == <<bucket, memory, storage, in_flight, eventSet, nextEvent,
              memory_hits, storage_hits, misses, pc, op, text, ev, new_ev,
              ret, how, completed, task, orphan, calls, genVars>>

NoTask == [kind |-> "none"]
ReadTask(k) == [kind |-> "read", key |-> k, state |-> "running", result |-> None, failed |-> FALSE]
WriteTask(k, v) == [kind |-> "write", key |-> k, state |-> "running", result |-> v, failed |-> FALSE]

Cancelled == [kind |-> "cancelled"]
Bool(b) == [kind |-> "bool", val |-> b]
Returned == [kind |-> "returned"]

\* ------------------------------------------------- cachetools.LRUCache
MemKeys(mem) == { mem[i].key : i \in 1..Len(mem) }
MemHas(mem, k) == k \in MemKeys(mem)
MemIndex(mem, k) == CHOOSE i \in 1..Len(mem) : mem[i].key = k
MemVal(mem, k) == mem[MemIndex(mem, k)].val
RECURSIVE MemDrop(_, _)
MemDrop(mem, k) ==
    IF mem = <<>> THEN <<>>
    ELSE (IF Head(mem).key = k THEN <<>> ELSE <<Head(mem)>>) \o MemDrop(Tail(mem), k)
\* LRUCache.__getitem__: the entry becomes the most recently used
MemTouch(mem, k) == Append(MemDrop(mem, k), [key |-> k, val |-> MemVal(mem, k)])
\* LRUCache.__setitem__: replace or insert, evicting the least recently used
MemSet(mem, k, v) ==
    LET rest == MemDrop(mem, k)
        room == IF Len(rest) >= MemoryCapacity THEN Tail(rest) ELSE rest
    IN  Append(room, [key |-> k, val |-> v])

\* -------------------------------------------------------- PipelineMetrics
NewMetrics ==
    [requests_total |-> 0, cache_hits |-> 0, partcrafter_successes |-> 0,
     partcrafter_failures |-> 0, fallback_successes |-> 0, fallback_failures |-> 0,
     mock_fallbacks |-> 0, errors_total |-> 0]

\* collections.deque(maxlen=n).append
DequeAppend(q, x, n) == IF Len(q) >= n THEN Append(Tail(q), x) ELSE Append(q, x)

\* PipelineMetrics.record_request(pipeline, latency_ms, cached, success=True):
\* the counters
record_request(m, pipeline, cached, success) ==
    LET m1 == [m EXCEPT !.requests_total = @ + 1]
        m2 == IF cached THEN [m1 EXCEPT !.cache_hits = @ + 1]
              ELSE IF success /\ pipeline = "partcrafter"
                   THEN [m1 EXCEPT !.partcrafter_successes = @ + 1]
              ELSE IF success /\ pipeline = "hunyuan3d_grounded_sam"
                   THEN [m1 EXCEPT !.fallback_successes = @ + 1]
              ELSE IF success /\ pipeline = "mock"
                   THEN [m1 EXCEPT !.mock_fallbacks = @ + 1]
              ELSE IF ~success /\ pipeline = "partcrafter"
                   THEN [m1 EXCEPT !.partcrafter_failures = @ + 1]
              ELSE IF ~success
                   THEN [m1 EXCEPT !.fallback_failures = @ + 1]
              ELSE m1
    IN  IF ~success THEN [m2 EXCEPT !.errors_total = @ + 1] ELSE m2

\* mutant: every recorded request enters the generation window
record_timestamp_always(q, cached, success, t) == DequeAppend(q, t, DequeMaxLen)

\* PipelineMetrics.record_request: the generation timestamp window
record_timestamp(q, cached, success, t) ==
    IF ~cached /\ success THEN DequeAppend(q, t, DequeMaxLen) ELSE q

\* PipelineMetrics.recent_generations_per_minute at clock reading t:
\* walks from the newest timestamp and stops at the first expired one
RECURSIVE recent_generations_per_minute(_, _)
recent_generations_per_minute(q, t) ==
    IF q = <<>> THEN 0
    ELSE IF q[Len(q)] >= t - WindowSeconds
         THEN 1 + recent_generations_per_minute(SubSeq(q, 1, Len(q) - 1), t)
         ELSE 0

\* mutant: the remaining time is returned without the floor of one second
RECURSIVE oldest_generation_retry_after_nofloor(_, _)
oldest_generation_retry_after_nofloor(q, t) ==
    IF q = <<>> THEN DefaultRetryAfter
    ELSE IF Head(q) >= t - WindowSeconds
         THEN WindowSeconds - (t - Head(q))
         ELSE oldest_generation_retry_after_nofloor(Tail(q), t)

\* PipelineMetrics.oldest_generation_retry_after at clock reading t:
\* walks from the oldest timestamp to the first one still in the window
RECURSIVE oldest_generation_retry_after(_, _)
oldest_generation_retry_after(q, t) ==
    IF q = <<>> THEN DefaultRetryAfter
    ELSE IF Head(q) >= t - WindowSeconds
         THEN Max(MinRetryAfter, WindowSeconds - (t - Head(q)))
         ELSE oldest_generation_retry_after(Tail(q), t)

\* ------------------------------------------- PipelineOrchestrator._generate_sync
\* step: the collaborator call that raised
Raise(e, step, ms) == [result |-> [kind |-> "raise", exc |-> e, step |-> step], models |-> ms]
\* geometry: which block sampled the points; labels: part ids lie in 0..labels-1
Produce(pipeline, geometry, names, labels, ms) ==
    [result |-> [kind |-> "ok", pipeline |-> pipeline, geometry |-> geometry,
                 part_names |-> names, labels |-> labels, points |-> max_points],
     models |-> ms]

Outcomes == {"ok", "error", "oom"}
FallbackOutcomes == {"ok", "load_error", "error", "oom", "unload_error"}
FallbackModels == {"hunyuan3d_turbo", "grounded_sam2"}

Take(s, n) == SubSeq(s, 1, Min(n, Len(s)))

\* mutant: the except block of the fallback re-raises whatever it caught
FallbackReraises_Always(e) == TRUE

\* the except block of the fallback block: `if isinstance(e,
\* torch.cuda.OutOfMemoryError): raise`; every other exception is logged
FallbackReraises(e) == e = "oom"

\* The whole synchronous pipeline for one template, with the registry content
\* ms and the behaviour of the collaborators as inputs:
\*   sdxl, part : what sdxl.generate / partcrafter.generate do
\*   real     : how many of the returned part meshes have more than one vertex
\*   fb       : what the fallback block does: "load_error" a model factory
\*              raised, "error" a later step raised, "unload_error" the labeled
\*              points were sampled and the registry unload then raised
\*   vram     : allocated memory is above vram_offload_threshold_gb
_generate_sync(template, ms, sdxl, part, real, fb, vram) ==
    LET has_image == "sdxl_turbo" \in ms
        mock_tag == IF has_image THEN "sdxl_turbo+mock" ELSE "mock"
        loaded == ms \cup FallbackModels
        n == num_parts(template)
    IN  IF has_image /\ sdxl # "ok" THEN Raise(sdxl, "sdxl_turbo", ms)
        ELSE IF has_image /\ "partcrafter" \in ms /\ part # "ok" THEN Raise(part, "partcrafter", ms)
        ELSE IF has_image /\ "partcrafter" \in ms /\ real > 0
             THEN \* valid_meshes is not empty: the primary result is returned
                  Produce("partcrafter", "primary", Take(template.part_names, real),
                          real, ms)
        ELSE IF has_image /\ fb = "ok"
             THEN Produce("hunyuan3d_grounded_sam", "fallback", template.part_names, n,
                          IF vram THEN ms \ FallbackModels ELSE loaded)
        ELSE IF has_image /\ FallbackReraises(fb)
             THEN Raise(IF fb = "oom" THEN "oom" ELSE "error", "fallback", loaded)
        ELSE IF has_image /\ fb = "unload_error"
             THEN \* pipeline_used was already set when unload raised
                  Produce("hunyuan3d_grounded_sam", "mock", template.part_names, n,
                          loaded \ {"hunyuan3d_turbo"})
        ELSE IF has_image /\ fb = "load_error"
             THEN Produce(mock_tag, "mock", template.part_names, n, ms)
        ELSE IF has_image
             THEN Produce(mock_tag, "mock", template.part_names, n, loaded)
        ELSE Produce(mock_tag, "mock", template.part_names, n, ms)

\* The collaborator calls one run of _generate_sync makes and how each ended
\* ("not_run": the call was not made): what the mocks of the tests record.
NoTrace == [image |-> "not_run", primary |-> "not_run", real |-> 0, fallback |-> "not_run"]

CallTrace(ms, sdxl, part, real, fb) ==
    LET image    == IF "sdxl_turbo" \in ms THEN sdxl ELSE "not_run"
        primary  == IF image = "ok" /\ "partcrafter" \in ms THEN part ELSE "not_run"
        parts    == IF primary = "ok" THEN real ELSE 0
        fallback == IF image = "ok" /\ primary \in {"not_run", "ok"} /\ parts = 0
                    THEN fb ELSE "not_run"
    IN  [image |-> image, primary |-> primary, real |-> parts, fallback |-> fallback]

\* how many real part meshes the part model may return for n requested parts:
\* the length of the list is the part model's, `num_parts` is only its argument
RealCounts(n) == {0, 1, n, n + 1}

\* every outcome _generate_sync can have for a template and a registry content
SyncOutcomes(template, ms) ==
    { LET run == _generate_sync(template, ms, sdxl, part, real, fb, vram)
      IN  [result |-> run.result, models |-> run.models,
           trace |-> CallTrace(ms, sdxl, part, real, fb)] :
        sdxl \in Outcomes, part \in Outcomes,
        real \in RealCounts(num_parts(template)),
        fb \in FallbackOutcomes, vram \in BOOLEAN }

\* SyncOutcomes for every request text and registry content, computed once
SyncTable ==
    [t \in Texts |->
        [ms \in SUBSET ({"sdxl_turbo", "partcrafter"} \cup FallbackModels) |->
            SyncOutcomes(get_template(t), ms)]]

GenTask(t) == [kind |-> "gen", state |-> "running", result |-> None,
               started |-> now, text |-> t, trace |-> NoTrace]

\* ----------------------------------------------------------------- Init
Threads == 1..NumThreads

\* the names _generate_sync loads lazily
LazyNames == FallbackModels

\* error: the exception that ended the last call of the thread
IdleWorker == [pc |-> "idle", name |-> "", model |-> 0, error |-> ""]
RaisedWorker(e) == [IdleWorker EXCEPT !.error = e]

\* ModelRegistry.__init__, no pool thread inside the registry
RegistryOff ==
    /\ registry_models = [n \in LazyNames |-> 0]
    /\ worker = [th \in Threads |-> IdleWorker]
    /\ next_model = 1
    /\ factory_calls = [n \in LazyNames |-> 0]
    /\ handed = [n \in LazyNames |-> {}]

NoProbe == [status_code |-> 0]

\* the application serving, its cache as the variable bucket says
HealthOff ==
    /\ bucket_name = bucket
    /\ skip_model_load = TRUE
    /\ lifespan = "serving"
    /\ reached = bucket
    /\ probe = NoProbe

\* no run of map_masks_to_faces
MapperOff == mapper = [stage |-> "off"]

\* no run of a point sampler
SamplerOff == sampler = [stage |-> "off"]

\* no call of stats()
StatsOff == stats_call = [stage |-> "off"]

\* no key derivation on its own
KeyingOff == keying = [stage |-> "off"]

\* no rejected client
ClientOff == client = [stage |-> "off"]

\* no set() against the collision table on its own
TrackerOff == tracker = [stage |-> "off"]

InitUnits ==
    /\ RegistryOff
    /\ HealthOff
    /\ MapperOff
    /\ SamplerOff
    /\ StatsOff
    /\ KeyingOff
    /\ ClientOff
    /\ TrackerOff

InitCommon ==
    /\ memory = <<>>
    /\ in_flight = [k \in Keys |-> 0]
    /\ eventSet = {}
    /\ nextEvent = 1
    /\ memory_hits = 0 /\ storage_hits = 0 /\ misses = 0
    /\ pc = [p \in Procs |-> "idle"]
    /\ op = [p \in Procs |-> "none"]
    /\ text = [p \in Procs |-> <<>>]
    /\ ev = [p \in Procs |-> 0]
    /\ new_ev = [p \in Procs |-> 0]
    /\ ret = [p |-> 0, val |-> [kind |-> "init"]]
    /\ how = "none"
    /\ completed = 0
    /\ task = [p \in Procs |-> NoTask]
    /\ orphan = [k \in Keys |-> 0]
    /\ calls = 0
    /\ now = 0
    /\ generation_timestamps = <<>>
    /\ metrics = NewMetrics
    /\ orphanGen = <<>>
    /\ starts = <<>>
    /\ lastEvent = [kind |-> "none", recent |-> 0, reclaim |-> FALSE]

InitCache ==
    /\ bucket \in BOOLEAN
    /\ storage \in {[k \in Keys |-> None], [k \in Keys |-> StoredBlob]}
    /\ (~bucket => storage = [k \in Keys |-> None])
    /\ models = {}
    /\ InitCommon
    /\ InitUnits

\* the coroutine p leaves its call with the value r
Finish(p, r) ==
    /\ pc' = [pc EXCEPT ![p] = "idle"]
    /\ op' = [op EXCEPT ![p] = "none"]
    /\ text' = [text EXCEPT ![p] = <<>>]
    /\ ev' = [ev EXCEPT ![p] = 0]
    /\ new_ev' = [new_ev EXCEPT ![p] = 0]
    /\ task' = [task EXCEPT ![p] = NoTask]
    /\ ret' = [p |-> p, val |-> r]

\* the coroutine p suspends at position at, awaiting the pool future tk
Suspend(p, o, t, at, tk, e, ne) ==
    /\ pc' = [pc EXCEPT ![p] = at]
    /\ op' = [op EXCEPT ![p] = o]
    /\ text' = [text EXCEPT ![p] = t]
    /\ ev' = [ev EXCEPT ![p] = e]
    /\ new_ev' = [new_ev EXCEPT ![p] = ne]
    /\ task' = [task EXCEPT ![p] = tk]
    /\ ret' = ret

\* ------------------------------------------ PipelineOrchestrator.generate
\* MemoryCache entry of key k marked cached: generate() sets cached=True on
\* the object that the memory tier holds
MemMark(mem, k) ==
    [i \in 1..Len(mem) |->
        IF mem[i].key = k THEN [mem[i] EXCEPT !.val.cached = TRUE] ELSE mem[i]]

\* mutant: the exception type is never recognised
is_oom_Never(exc) == FALSE

\* _generate_traced: isinstance(e, torch.cuda.OutOfMemoryError)
is_oom(exc) == exc = "oom"

\* mutant: the budget may be overshot by one
rate_limit_exceeded_strict(recent, gen_limit) == recent > gen_limit

\* the admission check of _generate_traced
rate_limit_exceeded(recent, gen_limit) == recent >= gen_limit

\* _generate_traced after `cached = await self._cache.get(request.text)`,
\* up to its return, its raise or its await of the worker pool
GenerateAfterLookup(p, t, v, mem) ==
    LET recent == recent_generations_per_minute(generation_timestamps, now) IN
    IF v # None
    THEN \* cache hit
         /\ memory' = MemMark(mem, KeyOf(t))
         /\ metrics' = record_request(metrics, "cache", TRUE, TRUE)
         /\ generation_timestamps' = record_timestamp(generation_timestamps, TRUE, TRUE, now)
         /\ Finish(p, [v EXCEPT !.cached = TRUE])
         /\ lastEvent' = [kind |-> "cache_hit", recent |-> recent, reclaim |-> FALSE]
         /\ UNCHANGED <<now, models, orphanGen, starts>>
    ELSE IF rate_limit_exceeded(recent, generation_rate_limit_per_minute)
    THEN \* admission check fails
         /\ memory' = mem
         /\ \E d \in ClockDrift :
              /\ now + d <= MaxTime
              /\ now' = now + d
              /\ Finish(p, RateLimited(
                     oldest_generation_retry_after(generation_timestamps, now + d)))
         /\ lastEvent' = [kind |-> "rate_limited", recent |-> recent, reclaim |-> FALSE]
         /\ UNCHANGED <<generation_timestamps, metrics, models, orphanGen, starts>>
    ELSE \* asyncio.wait_for(self._run_in_executor(text, template), timeout)
         /\ memory' = mem
         /\ Suspend(p, "generate", t, "gen_run", GenTask(t), 0, 0)
         /\ starts' = Append(starts, now)
         /\ lastEvent' = [kind |-> "started", recent |-> recent, reclaim |-> FALSE]
         /\ UNCHANGED <<now, generation_timestamps, metrics, models, orphanGen>>

\* ------------------------------------------------ ShapeCache.preload_to_memory
\* Runs to its first await, or to its return. mem is the memory tier as the
\* caller left it.
preload_to_memory_start(p, t, mem) ==
    LET key == KeyOf(t) IN
    IF MemHas(mem, key) THEN Finish(p, Bool(TRUE))
    ELSE IF ~bucket THEN Finish(p, Bool(FALSE))
    ELSE Suspend(p, "preload", t, "pre_read", ReadTask(key), 0, 0)

\* What the caller of ShapeCache.get does with the value v in the same
\* event-loop step. o, t: the caller's operation and text; h: get's exit path.
GetReturn(p, o, t, v, mem, h) ==
    /\ how' = h
    /\ completed' = completed + 1
    /\ CASE o = "get" ->
              /\ memory' = mem
              /\ Finish(p, v)
              /\ UNCHANGED genVars
         [] o = "preload" ->
              \* main._preload_one
              /\ memory' = mem
              /\ IF v # None THEN Finish(p, Bool(FALSE))
                 ELSE preload_to_memory_start(p, t, mem)
              /\ UNCHANGED genVars
         [] o = "generate" ->
              GenerateAfterLookup(p, t, v, mem)

\* --------------------------------------------------------- ShapeCache.get
\* mutant: the in-flight registry is never consulted
Coalesces_Never(key) == FALSE

\* `if key in self._in_flight`: another caller is resolving the key
Coalesces(key) == in_flight[key] # 0

\* mutant: the finally block forgets the signal
SetEvent_Forgotten(e) == eventSet

\* new_event.set(): the waiters of the event become runnable
SetEvent(e) == eventSet \cup {e}

\* mutant: the clean-up sits after the try block, so `return result` skips it
ReleaseInFlight_NotOnReturn(key, result) ==
    IF result # None THEN in_flight ELSE [in_flight EXCEPT ![key] = 0]

\* the finally block of the resolver: new_event.set(); _in_flight.pop(key, None)
ReleaseInFlight(key, result) == [in_flight EXCEPT ![key] = 0]

\* mutant: the exception of the blob store is handed on instead of None
StorageReadResult_Propagate(fail, blob) ==
    IF fail THEN [kind |-> "raise"] ELSE blob

\* what _get_from_storage returns: the blob, or None when the blob is absent
\* or when the read or the parse raised
StorageReadResult(fail, blob) == IF fail THEN None ELSE blob

\* mutant: a durable hit is returned without being stored in memory
Promote_Skip(mem, key, result) == mem

\* the resolver promotes a durable hit: self._memory[key] = result
Promote(mem, key, result) == MemSet(mem, key, result)

\* From the call to the first await (or to the return).
GetBody(p, o, t) ==
    LET key == KeyOf(t) IN
    IF MemHas(memory, key)
    THEN /\ memory_hits' = memory_hits + 1
         /\ GetReturn(p, o, t, MemVal(memory, key), MemTouch(memory, key), "memory_hit")
         /\ UNCHANGED <<storage_hits, misses, in_flight, nextEvent>>
    ELSE IF bucket
    THEN IF Coalesces(key)
         THEN \* another caller resolves the key: await event.wait()
              /\ Suspend(p, o, t, "get_wait", NoTask, in_flight[key], 0)
              /\ UNCHANGED <<memory, memory_hits, storage_hits, misses, in_flight,
                             nextEvent, how, completed>>
              /\ UNCHANGED genVars
         ELSE \* register as the resolver: await run_in_executor(_get_from_storage)
              /\ Suspend(p, o, t, "get_read", ReadTask(key), 0, nextEvent)
              /\ in_flight' = [in_flight EXCEPT ![key] = nextEvent]
              /\ nextEvent' = nextEvent + 1
              /\ UNCHANGED <<memory, memory_hits, storage_hits, misses, how, completed>>
              /\ UNCHANGED genVars
    ELSE /\ misses' = misses + 1
         /\ GetReturn(p, o, t, None, memory, "no_backend")
         /\ UNCHANGED <<memory_hits, storage_hits, in_flight, nextEvent>>

CallGet(p, t) ==
    /\ pc[p] = "idle" /\ calls < MaxCalls
    /\ calls' = calls + 1
    /\ GetBody(p, "get", t)
    /\ UNCHANGED <<bucket, storage, eventSet, orphan>>
    /\ UNCHANGED unitVars

\* main._preload_one: get(), then preload_to_memory() when get() found nothing
CallPreloadOne(p, t) ==
    /\ pc[p] = "idle" /\ calls < MaxCalls
    /\ calls' = calls + 1
    /\ GetBody(p, "preload", t)
    /\ UNCHANGED <<bucket, storage, eventSet, orphan>>
    /\ UNCHANGED unitVars

\* ShapeCache._get_from_storage on a worker thread: a failure of the blob
\* store or of the parse is caught and read as None
_get_from_storage(p) ==
    /\ task[p].kind = "read" /\ task[p].state = "running"
    /\ \E fail \in BOOLEAN :
         task' = [task EXCEPT ![p].state = "finished",
                              ![p].failed = fail,
                              ![p].result = StorageReadResult(fail, storage[task[p].key])]
    /\ UNCHANGED <<bucket, memory, storage, in_flight, eventSet, nextEvent,
                   memory_hits, storage_hits, misses, pc, op, text, ev, new_ev,
                   ret, how, completed, orphan, calls>>
    /\ UNCHANGED genVars
    /\ UNCHANGED unitVars

\* a read whose awaiter was cancelled runs to its end in the pool
OrphanReadDone(k) ==
    /\ orphan[k] > 0
    /\ orphan' = [orphan EXCEPT ![k] = @ - 1]
    /\ UNCHANGED <<bucket, memory, storage, in_flight, eventSet, nextEvent,
                   memory_hits, storage_hits, misses, pc, op, text, ev, new_ev,
                   ret, how, completed, task, calls>>
    /\ UNCHANGED genVars
    /\ UNCHANGED unitVars

\* the resolver resumes after the storage read: promote, then the finally block
GetReadResume(p) ==
    /\ pc[p] = "get_read" /\ task[p].state = "finished"
    /\ LET key == KeyOf(text[p])
           result == task[p].result
       IN  /\ IF result # None
              THEN /\ storage_hits' = storage_hits + 1
                   /\ misses' = misses
                   /\ GetReturn(p, op[p], text[p], result, Promote(memory, key, result),
                                "storage_hit")
              ELSE /\ misses' = misses + 1
                   /\ storage_hits' = storage_hits
                   /\ GetReturn(p, op[p], text[p], None, memory,
                                IF task[p].failed THEN "read_failed" ELSE "storage_miss")
           /\ eventSet' = SetEvent(new_ev[p])
           /\ in_flight' = ReleaseInFlight(key, result)
    /\ UNCHANGED <<bucket, storage, nextEvent, memory_hits, orphan, calls>>
    /\ UNCHANGED unitVars

\* a waiter resumes after event.wait(): only the memory tier is looked at
GetWake(p) ==
    /\ pc[p] = "get_wait" /\ ev[p] \in eventSet
    /\ LET key == KeyOf(text[p])
       IN  IF MemHas(memory, key)
           THEN /\ memory_hits' = memory_hits + 1
                /\ misses' = misses
                /\ GetReturn(p, op[p], text[p], MemVal(memory, key),
                             MemTouch(memory, key), "waiter_hit")
           ELSE /\ misses' = misses + 1
                /\ memory_hits' = memory_hits
                /\ GetReturn(p, op[p], text[p], None, memory, "waiter_miss")
    /\ UNCHANGED <<bucket, storage, in_flight, eventSet, nextEvent, storage_hits,
                   orphan, calls>>
    /\ UNCHANGED unitVars

\* CancelledError delivered at the await of get(): a waiter just leaves, the
\* resolver leaves through its finally block; the pool thread is not stopped
CancelGet(p) ==
    /\ pc[p] \in {"get_wait", "get_read"}
    /\ LET key == KeyOf(text[p])
       IN  IF pc[p] = "get_read"
           THEN /\ eventSet' = SetEvent(new_ev[p])
                /\ in_flight' = [in_flight EXCEPT ![key] = 0]
                /\ orphan' = [orphan EXCEPT ![key] =
                                 IF task[p].state = "running" THEN @ + 1 ELSE @]
           ELSE UNCHANGED <<eventSet, in_flight, orphan>>
    /\ Finish(p, Cancelled)
    /\ how' = "cancelled"
    /\ completed' = completed
    /\ UNCHANGED <<bucket, memory, storage, nextEvent, memory_hits, storage_hits,
                   misses, calls>>
    /\ UNCHANGED genVars
    /\ UNCHANGED unitVars

\* preload_to_memory resumes after its storage read
PreloadResume(p) ==
    /\ pc[p] = "pre_read" /\ task[p].state = "finished"
    /\ LET key == KeyOf(text[p])
           result == task[p].result
       IN  IF result # None
           THEN /\ memory' = MemSet(memory, key, result)
                /\ Finish(p, Bool(TRUE))
           ELSE /\ memory' = memory
                /\ Finish(p, Bool(FALSE))
    /\ UNCHANGED <<bucket, storage, in_flight, eventSet, nextEvent, memory_hits,
                   storage_hits, misses, how, completed, orphan, calls>>
    /\ UNCHANGED genVars
    /\ UNCHANGED unitVars

\* --------------------------------------------------------- ShapeCache.set
\* mutant: only the durable tier is written
SetBody_SkipMemory(p, t, v) ==
    /\ memory' = memory
    /\ IF bucket
       THEN Suspend(p, "set", t, "set_write", WriteTask(KeyOf(t), v), 0, 0)
       ELSE Finish(p, Returned)

\* From the call to the await of the storage write (or to the return).
SetBody(p, t, v) ==
    /\ memory' = MemSet(memory, KeyOf(t), v)
    /\ IF bucket
       THEN Suspend(p, "set", t, "set_write", WriteTask(KeyOf(t), v), 0, 0)
       ELSE Finish(p, Returned)

CallSet(p, t, v) ==
    /\ pc[p] = "idle" /\ calls < MaxCalls
    /\ calls' = calls + 1
    /\ SetBody(p, t, v)
    /\ UNCHANGED <<bucket, storage, in_flight, eventSet, nextEvent, memory_hits,
                   storage_hits, misses, how, completed, orphan>>
    /\ UNCHANGED genVars
    /\ UNCHANGED unitVars

\* ShapeCache._set_in_storage on a worker thread: an upload failure is caught
_set_in_storage(p) ==
    /\ task[p].kind = "write" /\ task[p].state = "running"
    /\ \E fail \in BOOLEAN :
         /\ task' = [task EXCEPT ![p].state = "finished", ![p].failed = fail]
         /\ storage' = IF fail THEN storage
                       ELSE [storage EXCEPT ![task[p].key] = task[p].result]
    /\ UNCHANGED <<bucket, memory, in_flight, eventSet, nextEvent,
                   memory_hits, storage_hits, misses, pc, op, text, ev, new_ev,
                   ret, how, completed, orphan, calls>>
    /\ UNCHANGED genVars
    /\ UNCHANGED unitVars

\* mutant: a failed upload is raised to whoever awaits set()
SetResume_Raises(p) ==
    /\ pc[p] = "set_write" /\ task[p].state = "finished"
    /\ Finish(p, IF task[p].failed THEN Failure("CacheWriteFailed") ELSE Returned)
    /\ UNCHANGED <<bucket, memory, storage, in_flight, eventSet, nextEvent, memory_hits,
                   storage_hits, misses, how, completed, orphan, calls>>
    /\ UNCHANGED genVars
    /\ UNCHANGED unitVars

SetResume(p) ==
    /\ pc[p] = "set_write" /\ task[p].state = "finished"
    /\ Finish(p, Returned)
    /\ UNCHANGED <<bucket, memory, storage, in_flight, eventSet, nextEvent, memory_hits,
                   storage_hits, misses, how, completed, orphan, calls>>
    /\ UNCHANGED genVars
    /\ UNCHANGED unitVars

\* ShapeCache.clear_memory (routes/debug.py)
clear_memory ==
    /\ memory # <<>>
    /\ memory' = <<>>
    /\ UNCHANGED <<bucket, storage, in_flight, eventSet, nextEvent, memory_hits,
                   storage_hits, misses, pc, op, text, ev, new_ev, ret, how, completed, task,
                   orphan, calls>>
    /\ UNCHANGED genVars
    /\ UNCHANGED unitVars

NextCache ==
    \/ \E p \in Callers, t \in GetTexts : CallGet(p, t)
    \/ \E t \in CallTexts : CallPreloadOne(Preloader, t)
    \/ \E p \in Callers, t \in CallTexts, v \in SetValues : CallSet(p, t, v)
    \/ \E p \in Procs : _get_from_storage(p)
    \/ \E k \in Keys : OrphanReadDone(k)
    \/ \E p \in Callers : GetReadResume(p)
    \/ \E p \in Callers : GetWake(p)
    \/ \E p \in Callers : CancelGet(p)
    \/ \E p \in Callers : PreloadResume(p)
    \/ \E p \in Procs : _set_in_storage(p)
    \/ \E p \in Procs : SetResume(p)
    \/ clear_memory

SpecCache == InitCache /\ [][NextCache]_vars

\* The pool thread of a submitted read runs to its end, and the event loop
\* resumes a coroutine whose future is done or whose event is set. Calls and
\* cancellations come from outside and are under no obligation.
FairCache ==
    /\ \A p \in Callers : WF_vars(_get_from_storage(p))
    /\ \A p \in Callers : WF_vars(GetReadResume(p))
    /\ \A p \in Callers : WF_vars(GetWake(p))

\* the callers of get() alone: resolvers, waiters and their cancellation
NextWaiters ==
    \/ \E p \in Callers : CallGet(p, <<"horse">>)
    \/ \E p \in Callers : _get_from_storage(p)
    \/ \E k \in Keys : OrphanReadDone(k)
    \/ \E p \in Callers : GetReadResume(p)
    \/ \E p \in Callers : GetWake(p)
    \/ \E p \in Callers : CancelGet(p)

SpecWaiters == InitCache /\ [][NextWaiters]_vars /\ FairCache

\* ------------------------------------------------------------- generate
CallGenerate(p, t) ==
    /\ pc[p] = "idle" /\ calls < MaxGenerateCalls
    /\ pc[WriterOf(p)] = "idle"
    /\ calls' = calls + 1
    /\ GetBody(p, "generate", t)
    /\ UNCHANGED <<bucket, storage, eventSet, orphan>>
    /\ UNCHANGED unitVars

\* _generate_sync on a worker thread
GenerateSync(p) ==
    /\ task[p].kind = "gen" /\ task[p].state = "running"
    /\ \E out \in SyncTable[task[p].text][models] :
         /\ task' = [task EXCEPT ![p].state = "finished", ![p].result = out.result,
                                  ![p].trace = out.trace]
         /\ models' = out.models
    /\ UNCHANGED <<bucket, memory, storage, in_flight, eventSet, nextEvent,
                   memory_hits, storage_hits, misses, pc, op, text, ev, new_ev,
                   ret, how, completed, orphan, calls,
                   now, generation_timestamps, metrics, orphanGen, starts, lastEvent>>
    /\ UNCHANGED unitVars

\* a _generate_sync run whose request timed out runs to its end in the pool
OrphanGenDone(i) ==
    /\ i \in 1..Len(orphanGen)
    /\ \E out \in SyncTable[orphanGen[i]][models] :
         models' = out.models
    /\ orphanGen' = SubSeq(orphanGen, 1, i - 1) \o SubSeq(orphanGen, i + 1, Len(orphanGen))
    /\ UNCHANGED <<bucket, memory, storage, in_flight, eventSet, nextEvent,
                   memory_hits, storage_hits, misses, pc, op, text, ev, new_ev,
                   ret, how, completed, task, orphan, calls,
                   now, generation_timestamps, metrics, starts, lastEvent>>
    /\ UNCHANGED unitVars

\* mutant: the TimeoutError falls into the generic `except Exception`
OnTimeoutError_Generic == Failure("GenerationFailed")

\* `except TimeoutError: raise GenerationTimeoutError(...) from None`
OnTimeoutError == Failure("Timeout")

\* asyncio.wait_for gives up: GenerationTimeoutError, the pool thread goes on
GenerateTimeout(p) ==
    /\ pc[p] = "gen_run"
    /\ now >= task[p].started + generation_timeout_seconds
    /\ orphanGen' = IF task[p].state = "running"
                    THEN Append(orphanGen, task[p].text) ELSE orphanGen
    /\ Finish(p, OnTimeoutError)
    /\ lastEvent' = [kind |-> "timeout", recent |-> 0, reclaim |-> FALSE]
    /\ UNCHANGED <<bucket, memory, storage, in_flight, eventSet, nextEvent,
                   memory_hits, storage_hits, misses, how, completed, orphan, calls,
                   now, generation_timestamps, metrics, models, starts>>
    /\ UNCHANGED unitVars

\* mutant: the write task is created before the response exists
ScheduledWrite_Early(response) == [kind |-> "scheduled", result |-> None]

\* asyncio.create_task(_write_cache()): the task holds the response it will store
ScheduledWrite(response) == [kind |-> "scheduled", result |-> response]

\* mutant: the except block records the failed request
RaisedMetrics_Recorded(m) == record_request(m, "partcrafter", FALSE, FALSE)

\* the metrics after `except Exception`: the block raises without a call of
\* record_request
RaisedMetrics(m) == m

\* _generate_traced resumes with the outcome of _generate_sync
GenerateResume(p) ==
    /\ pc[p] = "gen_run" /\ task[p].state = "finished"
    /\ LET r == task[p].result
           w == WriterOf(p)
           template == get_template(text[p])
           response == Response("G", template.template_type, r.part_names, r.pipeline)
       IN  IF r.kind = "raise"
           THEN /\ Finish(p, Failure(IF is_oom(r.exc) THEN "OutOfMemory"
                                     ELSE "GenerationFailed"))
                /\ lastEvent' = [kind |-> "failed", recent |-> 0, reclaim |-> is_oom(r.exc)]
                /\ metrics' = RaisedMetrics(metrics)
                /\ UNCHANGED generation_timestamps
           ELSE \* asyncio.create_task(_write_cache()); record_request; return
                /\ pc' = [pc EXCEPT ![p] = "idle", ![w] = "scheduled"]
                /\ op' = [op EXCEPT ![p] = "none", ![w] = "set"]
                /\ text' = [text EXCEPT ![p] = <<>>, ![w] = text[p]]
                /\ task' = [task EXCEPT ![p] = NoTask,
                                        ![w] = ScheduledWrite(response)]
                /\ ret' = [p |-> p, val |-> response]
                /\ UNCHANGED <<ev, new_ev>>
                /\ metrics' = record_request(metrics, r.pipeline, FALSE, TRUE)
                /\ generation_timestamps' =
                       record_timestamp(generation_timestamps, FALSE, TRUE, now)
                /\ lastEvent' = [kind |-> "generated", recent |-> 0, reclaim |-> FALSE]
    /\ UNCHANGED <<bucket, memory, storage, in_flight, eventSet, nextEvent,
                   memory_hits, storage_hits, misses, how, completed, orphan, calls,
                   now, models, orphanGen, starts>>
    /\ UNCHANGED unitVars

\* the detached _write_cache task runs ShapeCache.set
WriteCache(w) ==
    /\ w \in Writers /\ pc[w] = "scheduled"
    /\ SetBody(w, text[w], task[w].result)
    /\ UNCHANGED <<bucket, storage, in_flight, eventSet, nextEvent, memory_hits,
                   storage_hits, misses, how, completed, orphan, calls>>
    /\ UNCHANGED genVars
    /\ UNCHANGED unitVars

Tick ==
    /\ \E d \in TickSteps : now + d <= MaxTime /\ now' = now + d
    /\ UNCHANGED <<bucket, memory, storage, in_flight, eventSet, nextEvent,
                   memory_hits, storage_hits, misses, pc, op, text, ev, new_ev,
                   ret, how, completed, task, orphan, calls,
                   generation_timestamps, metrics, models, orphanGen, starts, lastEvent>>
    /\ UNCHANGED unitVars

\* the orchestrator of the pipeline tests: memory-only cache, any of the
\* primary models registered
InitGen ==
    /\ bucket = FALSE
    /\ storage = [k \in Keys |-> None]
    /\ InitCommon
    /\ models \in SUBSET {"sdxl_turbo", "partcrafter"}
    /\ InitUnits

NextGen ==
    \/ \E p \in Requesters, t \in GenTexts : CallGenerate(p, t)
    \/ \E p \in Requesters : GenerateSync(p)
    \/ \E i \in 1..NumRequests : OrphanGenDone(i)
    \/ \E p \in Requesters : GenerateTimeout(p)
    \/ \E p \in Requesters : GenerateResume(p)
    \/ \E p \in Requesters : WriteCache(WriterOf(p))
    \/ Tick

Spec == InitGen /\ [][NextGen]_vars

\* the orchestrator with requests for two spellings of one concept
SharedTexts == { <<"horse">>, <<"The", "horses!">> }

NextShared ==
    \/ \E p \in Requesters, t \in SharedTexts : CallGenerate(p, t)
    \/ \E p \in Requesters : GenerateSync(p)
    \/ \E i \in 1..NumRequests : OrphanGenDone(i)
    \/ \E p \in Requesters : GenerateTimeout(p)
    \/ \E p \in Requesters : GenerateResume(p)
    \/ \E p \in Requesters : WriteCache(WriterOf(p))
    \/ Tick

SpecShared == InitGen /\ [][NextShared]_vars

\* the orchestrator in front of a connected bucket (main.lifespan with
\* cache_bucket set): the cache lookup and the detached cache write of
\* generate() go through the worker pool
InitDurable ==
    /\ bucket = TRUE
    /\ storage = [k \in Keys |-> None]
    /\ InitCommon
    /\ models = {}
    /\ InitUnits

NextDurable ==
    \/ \E p \in Requesters, t \in GenTexts : CallGenerate(p, t)
    \/ \E p \in Requesters : _get_from_storage(p)
    \/ \E p \in Requesters : GetReadResume(p)
    \/ \E p \in Requesters : GetWake(p)
    \/ \E p \in Requesters : GenerateSync(p)
    \/ \E i \in 1..NumRequests : OrphanGenDone(i)
    \/ \E p \in Requesters : GenerateTimeout(p)
    \/ \E p \in Requesters : GenerateResume(p)
    \/ \E p \in Requesters : WriteCache(WriterOf(p))
    \/ \E p \in Requesters : _set_in_storage(WriterOf(p))
    \/ \E p \in Requesters : SetResume(WriterOf(p))
    \/ Tick

SpecDurable == InitDurable /\ [][NextDurable]_vars

\* ------------------------------------------------------- ModelRegistry
\* The fallback block of _generate_sync runs on the threads of the default
\* executor, one per request in generation: each statement of get_or_load and
\* of unload is one step of its thread.

\* the cache and the orchestrator at rest
InitBase ==
    /\ bucket = FALSE
    /\ storage = [k \in Keys |-> None]
    /\ models = {}
    /\ InitCommon

\* `if name not in self._models:`
GetOrLoadTest(th, name) ==
    /\ worker[th].pc = "idle"
    /\ worker' = [worker EXCEPT ![th] =
                     [pc |-> IF registry_models[name] = 0 THEN "factory" ELSE "return",
                      name |-> name, model |-> 0, error |-> ""]]
    /\ UNCHANGED <<registry_models, next_model, factory_calls, handed>>
    /\ UNCHANGED <<baseVars, exceptRegistry>>

\* `model = factory()`: builds a new instance, or raises
GetOrLoadFactory(th) ==
    /\ worker[th].pc = "factory" /\ next_model <= MaxLoads
    /\ factory_calls' = [factory_calls EXCEPT ![worker[th].name] = @ + 1]
    /\ next_model' = next_model + 1
    /\ \E built \in BOOLEAN :
         worker' = IF built
                   THEN [worker EXCEPT ![th].pc = "register", ![th].model = next_model]
                   ELSE [worker EXCEPT ![th] = IdleWorker]
    /\ UNCHANGED <<registry_models, handed>>
    /\ UNCHANGED <<baseVars, exceptRegistry>>

\* `self.register(name, model)`: self._models[name] = model
GetOrLoadRegister(th) ==
    /\ worker[th].pc = "register"
    /\ registry_models' = [registry_models EXCEPT ![worker[th].name] = worker[th].model]
    /\ worker' = [worker EXCEPT ![th].pc = "return"]
    /\ UNCHANGED <<next_model, factory_calls, handed>>
    /\ UNCHANGED <<baseVars, exceptRegistry>>

\* how `return self._models[name]` leaves the thread
LookupResult(reg, n) ==
    IF reg[n] = 0 THEN RaisedWorker("get_or_load: KeyError") ELSE IdleWorker

\* `return self._models[name]`: KeyError when the name was unloaded meanwhile
GetOrLoadReturn(th) ==
    /\ worker[th].pc = "return"
    /\ LET n == worker[th].name
       IN  /\ handed' = IF registry_models[n] = 0 THEN handed
                         ELSE [handed EXCEPT ![n] = @ \cup {registry_models[n]}]
           /\ worker' = [worker EXCEPT ![th] = LookupResult(registry_models, n)]
    /\ UNCHANGED <<registry_models, next_model, factory_calls>>
    /\ UNCHANGED <<baseVars, exceptRegistry>>

\* unload: `if name not in self._models: return`
UnloadTest(th, name) ==
    /\ worker[th].pc = "idle"
    /\ worker' = IF registry_models[name] = 0
                 THEN [worker EXCEPT ![th] = IdleWorker]
                 ELSE [worker EXCEPT ![th] = [pc |-> "del", name |-> name, model |-> 0,
                                              error |-> ""]]
    /\ UNCHANGED <<registry_models, next_model, factory_calls, handed>>
    /\ UNCHANGED <<baseVars, exceptRegistry>>

\* unload: `del self._models[name]`: KeyError when another thread deleted it
UnloadDel(th) ==
    /\ worker[th].pc = "del"
    /\ LET n == worker[th].name
       IN  IF registry_models[n] = 0
           THEN /\ UNCHANGED <<registry_models, factory_calls, handed>>
                /\ worker' = [worker EXCEPT ![th] = RaisedWorker("unload: KeyError")]
           ELSE /\ registry_models' = [registry_models EXCEPT ![n] = 0]
                /\ factory_calls' = [factory_calls EXCEPT ![n] = 0]
                /\ handed' = [handed EXCEPT ![n] = {}]
                /\ worker' = [worker EXCEPT ![th] = IdleWorker]
    /\ UNCHANGED next_model
    /\ UNCHANGED <<baseVars, exceptRegistry>>

InitRegistry ==
    /\ InitBase
    /\ RegistryOff
    /\ HealthOff
    /\ MapperOff
    /\ SamplerOff
    /\ StatsOff
    /\ KeyingOff
    /\ ClientOff
    /\ TrackerOff

NextRegistry ==
    \/ \E th \in Threads, n \in LazyNames : GetOrLoadTest(th, n)
    \/ \E th \in Threads : GetOrLoadFactory(th)
    \/ \E th \in Threads : GetOrLoadRegister(th)
    \/ \E th \in Threads : GetOrLoadReturn(th)
    \/ \E th \in Threads, n \in LazyNames : UnloadTest(th, n)
    \/ \E th \in Threads : UnloadDel(th)

SpecRegistry == InitRegistry /\ [][NextRegistry]_vars

\* ------------------------------------------------- startup and readiness
\* mutant: only a bucket handle counts as connected
is_connected_BucketOnly == bucket

\* ShapeCache.is_connected
is_connected == bucket \/ ~bucket_name

\* routes/health.readiness: the answer for the loaded names, the cache's
\* is_connected and registry.skip_loading
readiness(loaded, cache_connected, skip_loading) ==
    LET ready == (loaded # {} \/ skip_loading) /\ cache_connected
    IN  [status_code |-> IF ready THEN 200 ELSE 503,
         status |-> IF ready THEN "ready" ELSE "not_ready",
         models_loaded |-> loaded,
         cache_connected |-> cache_connected]

\* the one request coroutine of this specification
HealthCaller == 1

cacheVars == <<memory, storage, in_flight, eventSet, nextEvent,
               memory_hits, storage_hits, misses, pc, op, text, ev, new_ev,
               ret, how, completed, task, orphan, calls>>

\* lifespan: `await cache.connect()`; _connect_sync sets _bucket unless the
\* client library raises
connect ==
    /\ lifespan = "constructed"
    /\ lifespan' = "serving"
    /\ IF bucket_name
       THEN \E ok \in BOOLEAN : bucket' = ok /\ reached' = ok
       ELSE UNCHANGED <<bucket, reached>>
    /\ UNCHANGED <<bucket_name, skip_model_load, probe>>
    /\ UNCHANGED <<cacheVars, genVars, exceptHealth>>

\* ModelRegistry.register from the background load
register(name) ==
    /\ lifespan = "serving" /\ name \notin models
    /\ models' = models \cup {name}
    /\ UNCHANGED <<bucket, cacheVars, healthVars, exceptHealth>>
    /\ UNCHANGED <<now, generation_timestamps, metrics, orphanGen, starts, lastEvent>>

\* ModelRegistry.unload
unload(name) ==
    /\ lifespan = "serving" /\ name \in models
    /\ models' = models \ {name}
    /\ UNCHANGED <<bucket, cacheVars, healthVars, exceptHealth>>
    /\ UNCHANGED <<now, generation_timestamps, metrics, orphanGen, starts, lastEvent>>

\* GET /health/ready
Readiness ==
    /\ lifespan = "serving"
    /\ probe' = readiness(models, is_connected, skip_model_load)
    /\ UNCHANGED <<bucket_name, skip_model_load, lifespan, reached>>
    /\ UNCHANGED <<baseVars, exceptHealth>>

\* lifespan just after ShapeCache(bucket_name=settings.cache_bucket)
InitHealth ==
    /\ InitBase
    /\ RegistryOff
    /\ bucket_name \in BOOLEAN
    /\ skip_model_load \in BOOLEAN
    /\ lifespan = "constructed"
    /\ reached = FALSE
    /\ probe = NoProbe
    /\ MapperOff
    /\ SamplerOff
    /\ StatsOff
    /\ KeyingOff
    /\ ClientOff
    /\ TrackerOff

NextHealth ==
    \/ connect
    \/ \E n \in {"sdxl_turbo", "partcrafter"} : register(n)
    \/ \E n \in {"sdxl_turbo", "partcrafter"} : unload(n)
    \/ Readiness
    \/ \E t \in GetTexts : lifespan = "serving" /\ CallGet(HealthCaller, t)
    \/ \E t \in CallTexts, v \in SetValues : lifespan = "serving" /\ CallSet(HealthCaller, t, v)
    \/ _get_from_storage(HealthCaller)
    \/ GetReadResume(HealthCaller)
    \/ _set_in_storage(HealthCaller)
    \/ SetResume(HealthCaller)

SpecHealth == InitHealth /\ [][NextHealth]_vars

\* ----------------------------------------------------- map_masks_to_faces
\* A view is a face-id map (one face index per pixel, -1 for background) and
\* the masks of the view in dict order; a mask is the set of its True pixels.
Pixels == 1..NumPixels
Faces == 0..(NumFaces - 1)
PartNames == {"left_ear", "right_ear", "body"}
\* the last map shows a face index beyond the centroids given
FaceIdMaps ==
    { [px \in Pixels |-> px - 1],
      [px \in Pixels |-> 1],
      [px \in Pixels |-> IF px = 1 THEN NumFaces - 1 ELSE -1],
      [px \in Pixels |-> IF px = 1 THEN 0 ELSE NumFaces] }

\* the dicts of at most n masks, as the sequence of their items
MaskDicts(n) ==
    UNION { { d \in [1..k -> [part : PartNames, mask : SUBSET Pixels]] :
                \A i, j \in 1..k : i # j => d[i].part # d[j].part } : k \in 0..n }

ViewSet(n) == [masks : MaskDicts(n), face_id_map : FaceIdMaps]

\* the view lists given to map_masks_to_faces
ViewLists ==
    {<<>>} \cup { <<v>> : v \in ViewSet(MaxMasks) }
           \cup { <<v, w>> : v \in ViewSet(MaxMasks), w \in ViewSet(1) }

\* np.inf
Inf == NumPixels + 1

\* the entries (part_name, mask, face_id_map, area) of one view, area = mask.sum()
ViewEntries(view) ==
    [i \in 1..Len(view.masks) |->
        [part |-> view.masks[i].part, mask |-> view.masks[i].mask,
         face_id_map |-> view.face_id_map, area |-> Cardinality(view.masks[i].mask)]]

RECURSIVE all_mask_entries(_)
all_mask_entries(views) ==
    IF views = <<>> THEN <<>>
    ELSE ViewEntries(Head(views)) \o all_mask_entries(Tail(views))

\* unique_parts: the part names in the order they are first seen
RECURSIVE unique_parts(_, _)
unique_parts(entries, seen) ==
    IF entries = <<>> THEN seen
    ELSE unique_parts(Tail(entries),
                      IF \E i \in 1..Len(seen) : seen[i] = Head(entries).part
                      THEN seen ELSE Append(seen, Head(entries).part))

\* part_to_idx[part_name]
part_to_idx(unique, part) == (CHOOSE i \in 1..Len(unique) : unique[i] = part) - 1

\* sorted(all_mask_entries, key=area): ascending and stable
RECURSIVE InsertByArea(_, _)
InsertByArea(sorted, e) ==
    IF sorted = <<>> THEN <<e>>
    ELSE IF e.area < Head(sorted).area THEN <<e>> \o sorted
    ELSE <<Head(sorted)>> \o InsertByArea(Tail(sorted), e)

RECURSIVE SortByArea(_, _)
SortByArea(entries, sorted) ==
    IF entries = <<>> THEN sorted
    ELSE SortByArea(Tail(entries), InsertByArea(sorted, Head(entries)))

\* np.unique(face_id_map[mask]) without the background
face_indices(e) == { e.face_id_map[px] : px \in e.mask } \ {-1}

\* mutant: every later mask overwrites the label
Overwrites_Always(area, held) == TRUE

\* `area < face_mask_area[fidx]`
Overwrites(area, held) == area < held

\* _find_symmetric_pair for the part names of this model
SymmetricPair(name, all_names) ==
    LET pair == CASE name = "left_ear" -> "right_ear"
                  [] name = "right_ear" -> "left_ear"
                  [] OTHER -> ""
    IN  IF \E i \in 1..Len(all_names) : all_names[i] = pair THEN pair ELSE ""

CountLabel(labels, idx) == Cardinality({ f \in Faces : labels[f] = idx })

\* _clone_via_reflection: every source face marks at most one unlabeled face,
\* the one nearest to its mirror image when it is closer than 0.3
CloneOutcomes(labels, source_idx, target_idx) ==
    LET unlabeled == { f \in Faces : labels[f] = -1 }
    IN  { [f \in Faces |-> IF f \in T THEN target_idx ELSE labels[f]] :
            T \in { T \in SUBSET unlabeled :
                        Cardinality(T) <= CountLabel(labels, source_idx) } }

\* _apply_symmetric_heuristic from the i-th part name on
RECURSIVE SymmetricOutcomes(_, _, _, _, _)
SymmetricOutcomes(labels, unique, part_names, i, checked) ==
    IF i > Len(part_names) THEN {labels}
    ELSE LET name == part_names[i]
             known(n) == \E k \in 1..Len(unique) : unique[k] = n
             pair == SymmetricPair(name, part_names)
         IN  IF name \in checked \/ ~known(name) \/ pair = "" \/ ~known(pair)
             THEN SymmetricOutcomes(labels, unique, part_names, i + 1, checked)
             ELSE LET idx_a == part_to_idx(unique, name)
                      idx_b == part_to_idx(unique, pair)
                      count_a == CountLabel(labels, idx_a)
                      count_b == CountLabel(labels, idx_b)
                      cloned == IF count_a > 0 /\ count_b = 0
                                THEN CloneOutcomes(labels, idx_a, idx_b)
                                ELSE IF count_b > 0 /\ count_a = 0
                                THEN CloneOutcomes(labels, idx_b, idx_a)
                                ELSE {labels}
                  IN  UNION { SymmetricOutcomes(l, unique, part_names, i + 1,
                                                checked \cup {name, pair}) : l \in cloned }

\* the (source, target) pairs for which _apply_symmetric_heuristic reaches
\* _clone_via_reflection: both names have an index in part_to_idx, one of them
\* holds faces and the other holds none
SymmetricCalls(labels, unique, part_names) ==
    LET known(n) == \E k \in 1..Len(unique) : unique[k] = n
    IN  { c \in PartNames \X PartNames :
            /\ \E i \in 1..Len(part_names) : part_names[i] = c[1]
            /\ known(c[1])
            /\ SymmetricPair(c[1], part_names) = c[2]
            /\ known(c[2])
            /\ CountLabel(labels, part_to_idx(unique, c[1])) > 0
            /\ CountLabel(labels, part_to_idx(unique, c[2])) = 0 }

\* mutant: faces are left at -1 when nothing was labeled
FillAllUnlabeled_Skip(labels) == labels

\* `elif unlabeled.all(): face_labels[:] = 0`
FillAllUnlabeled(labels) == [f \in Faces |-> 0]

\* the nearest-neighbour fill: every unlabeled face takes the label of the
\* labeled face whose centroid is nearest
FillOutcomes(labels) ==
    LET unlabeled == { f \in Faces : labels[f] = -1 }
        labeled == Faces \ unlabeled
    IN  IF unlabeled # {} /\ labeled # {}
        THEN { [f \in Faces |-> IF f \in unlabeled THEN labels[nearest[f]] ELSE labels[f]] :
                 nearest \in [unlabeled -> labeled] }
        ELSE IF unlabeled = Faces THEN {FillAllUnlabeled(labels)}
        ELSE {labels}

\* lines 19-47: collect the entries; without entries every face gets 0
MapCollect ==
    /\ mapper.stage = "start"
    /\ LET entries == all_mask_entries(mapper.views)
       IN  mapper' = IF entries = <<>>
                     THEN [mapper EXCEPT !.stage = "done",
                                         !.face_labels = [f \in Faces |-> 0]]
                     ELSE [mapper EXCEPT !.stage = "label",
                                         !.unique = unique_parts(entries, <<>>),
                                         !.todo = SortByArea(entries, <<>>)]
    /\ UNCHANGED <<baseVars, exceptMapper>>

\* one turn of the loop over sorted_entries
MapLabelEntry ==
    /\ mapper.stage = "label" /\ mapper.todo # <<>>
    /\ LET e == Head(mapper.todo)
           hit == { f \in face_indices(e) :
                      f < NumFaces /\ Overwrites(e.area, mapper.face_mask_area[f]) }
       IN  mapper' = [mapper EXCEPT
                        !.todo = Tail(mapper.todo),
                        !.face_labels = [f \in Faces |->
                            IF f \in hit THEN part_to_idx(mapper.unique, e.part) ELSE @[f]],
                        !.face_mask_area = [f \in Faces |->
                            IF f \in hit THEN e.area ELSE @[f]]]
    /\ UNCHANGED <<baseVars, exceptMapper>>

\* `if part_names: _apply_symmetric_heuristic(...)`
MapSymmetric ==
    /\ mapper.stage = "label" /\ mapper.todo = <<>>
    /\ \E l \in SymmetricOutcomes(mapper.face_labels, mapper.unique,
                                   mapper.part_names, 1, {}) :
         mapper' = [mapper EXCEPT !.stage = "fill", !.direct = mapper.face_labels,
                                  !.cloned = SymmetricCalls(mapper.face_labels, mapper.unique,
                                                            mapper.part_names),
                                  !.face_labels = l]
    /\ UNCHANGED <<baseVars, exceptMapper>>

\* lines 69-90: fill the unlabeled faces and return
MapFill ==
    /\ mapper.stage = "fill"
    /\ \E l \in FillOutcomes(mapper.face_labels) :
         mapper' = [mapper EXCEPT !.stage = "done", !.face_labels = l]
    /\ UNCHANGED <<baseVars, exceptMapper>>

InitMasks ==
    /\ InitBase
    /\ RegistryOff
    /\ HealthOff
    /\ SamplerOff
    /\ StatsOff
    /\ KeyingOff
    /\ ClientOff
    /\ TrackerOff
    /\ \E vs \in ViewLists, names \in {<<>>, <<"left_ear", "right_ear", "body">>} :
         mapper = [stage |-> "start", views |-> vs, part_names |-> names,
                   face_labels |-> [f \in Faces |-> -1],
                   face_mask_area |-> [f \in Faces |-> Inf],
                   direct |-> [f \in Faces |-> -1], cloned |-> {},
                   unique |-> <<>>, todo |-> <<>>]

NextMasks ==
    \/ MapCollect
    \/ MapLabelEntry
    \/ MapSymmetric
    \/ MapFill

SpecMasks == InitMasks /\ [][NextMasks]_vars

\* ----------------------------------------- normalize_key, then _hash_key
MaxTokens == 2
\* raw tokens: capitals, articles, punctuation only, a plural with punctuation
RawTokens == { "The", "the", "a", "!", "horses!", "Horse", "cat" }
RawTexts == UNION { [1..n -> RawTokens] : n \in 0..MaxTokens }

\* normalized = self.normalize_key(text)
Normalize ==
    /\ keying.stage = "start"
    /\ keying' = [keying EXCEPT !.stage = "normalized",
                                !.normalized = normalize_key(keying.text)]
    /\ UNCHANGED <<baseVars, exceptKeying>>

\* key = self._hash_key(normalized)
HashKey ==
    /\ keying.stage = "normalized"
    /\ keying' = [keying EXCEPT !.stage = "hashed", !.key = _hash_key(keying.normalized)]
    /\ UNCHANGED <<baseVars, exceptKeying>>

InitKeying ==
    /\ InitBase
    /\ RegistryOff
    /\ HealthOff
    /\ MapperOff
    /\ SamplerOff
    /\ StatsOff
    /\ ClientOff
    /\ TrackerOff
    /\ \E t \in RawTexts :
         keying = [stage |-> "start", text |-> t, normalized |-> <<>>, key |-> ""]

NextKeying ==
    \/ Normalize
    \/ HashKey

SpecKeying == InitKeying /\ [][NextKeying]_vars

\* ------------------------------------- the admission check and Retry-After
\* The clock of this part counts half seconds, so that a retry-after with a
\* fraction exists.
TicksPerSecond == 2
Window == WindowSeconds * TicksPerSecond
\* the latest instant at which a request is rejected, and the generations recorded
MaxTick == 64
MaxRecorded == 2
AdvanceSteps == {1, 60}
\* half seconds between the clock read of the count and that of the retry-after
ReadDrift == {0, 1}

\* recent_generations_per_minute on the half-second clock
RECURSIVE recent_generations(_, _)
recent_generations(q, t) ==
    IF q = <<>> THEN 0
    ELSE IF q[Len(q)] >= t - Window
         THEN 1 + recent_generations(SubSeq(q, 1, Len(q) - 1), t)
         ELSE 0

\* oldest_generation_retry_after on the half-second clock, in half seconds
RECURSIVE retry_after_seconds(_, _)
retry_after_seconds(q, t) ==
    IF q = <<>> THEN DefaultRetryAfter * TicksPerSecond
    ELSE IF Head(q) >= t - Window
         THEN Max(MinRetryAfter * TicksPerSecond, Window - (t - Head(q)))
         ELSE retry_after_seconds(Tail(q), t)

\* generation_rate_limit_handler: int(exc.retry_after_seconds), whole seconds
RetryAfterHeader(ra) == ra \div TicksPerSecond

exceptClock == <<bucket, cacheVars, metrics, models, orphanGen, starts, lastEvent>>

\* record_request(..., cached=False) of a request admitted earlier: the
\* generation is stamped when it ends
RecordGeneration ==
    /\ client.stage \in {"idle", "rejected"}
    /\ Len(generation_timestamps) < MaxRecorded
    /\ generation_timestamps' = Append(generation_timestamps, now)
    /\ client' = IF client.stage = "rejected" THEN [client EXCEPT !.between = TRUE]
                 ELSE client
    /\ UNCHANGED <<now, exceptClock, exceptClient>>

Advance ==
    /\ client.stage = "idle"
    /\ \E d \in AdvanceSteps : now + d <= MaxTick /\ now' = now + d
    /\ UNCHANGED <<generation_timestamps, client, exceptClock, exceptClient>>

\* _generate_traced, pipeline.py lines 78-90: the count reaches the limit;
\* the retry-after is computed at a clock read of its own and raised; the
\* handler puts it into the Retry-After header
Reject ==
    /\ client.stage = "idle"
    /\ rate_limit_exceeded(recent_generations(generation_timestamps, now),
                           generation_rate_limit_per_minute)
    /\ \E drift \in ReadDrift :
         LET ra == retry_after_seconds(generation_timestamps, now + drift)
         IN  /\ now' = now + drift
             /\ client' = [stage |-> "rejected", at |-> now + drift, retry_after |-> ra,
                           header |-> RetryAfterHeader(ra), between |-> FALSE,
                           waited |-> 0, outcome |-> "none"]
    /\ UNCHANGED <<generation_timestamps, exceptClock, exceptClient>>

\* the client comes back after the wait it was told: the seconds of the
\* error value, or the seconds of the header; the admission check runs again
Retry ==
    /\ client.stage = "rejected"
    /\ \E wait \in {client.retry_after, client.header * TicksPerSecond} :
         /\ now' = client.at + wait
         /\ client' = [client EXCEPT
                          !.stage = "retried",
                          !.waited = wait,
                          !.outcome =
                              IF rate_limit_exceeded(
                                     recent_generations(generation_timestamps, client.at + wait),
                                     generation_rate_limit_per_minute)
                              THEN "rejected" ELSE "admitted"]
    /\ UNCHANGED <<generation_timestamps, exceptClock, exceptClient>>

InitClient ==
    /\ InitBase
    /\ RegistryOff
    /\ HealthOff
    /\ MapperOff
    /\ SamplerOff
    /\ StatsOff
    /\ KeyingOff
    /\ client = [stage |-> "idle"]
    /\ TrackerOff

NextClient ==
    \/ RecordGeneration
    \/ Advance
    \/ Reject
    \/ Retry

SpecClient == InitClient /\ [][NextClient]_vars

\* ------------------------------------------ set() and the collision table
\* self._key_origins_max, 10_000 in the source
_key_origins_max == 2
\* the set() calls of one behaviour
MaxTracked == 4
\* "bird" and "fish" are two normalized texts with one truncated digest
TrackTexts == { <<"dog">>, <<"The", "cat">>, <<"cat">>, <<"horse">>, <<"bird">>, <<"fish">> }
TrackValues ==
    SetValues \cup { Response("B", "quadruped", TEMPLATES["quadruped"], "partcrafter") }

NoWarning == [kind |-> "none"]
\* logger.warning("cache_key_collision", existing_text=, new_text=, hash=)
Collision(existing, new, key) ==
    [kind |-> "cache_key_collision", existing_text |-> existing, new_text |-> new,
     hash |-> key]

\* mutant: the text seen last replaces the recorded one
_track_collision_LastWins(origins, key, normalized) ==
    IF \E o \in origins : o.key = key
    THEN LET existing == (CHOOSE o \in origins : o.key = key).text
         IN  [origins |-> { o \in origins : o.key # key }
                             \cup {[key |-> key, text |-> normalized]},
              warning |-> IF existing # normalized
                          THEN Collision(existing, normalized, key) ELSE NoWarning]
    ELSE [origins |-> IF Cardinality(origins) < _key_origins_max
                      THEN origins \cup {[key |-> key, text |-> normalized]}
                      ELSE origins,
          warning |-> NoWarning]

\* ShapeCache._track_collision; _key_origins as the set of its items
_track_collision(origins, key, normalized) ==
    IF \E o \in origins : o.key = key
    THEN LET existing == (CHOOSE o \in origins : o.key = key).text
         IN  [origins |-> origins,
              warning |-> IF existing # normalized
                          THEN Collision(existing, normalized, key) ELSE NoWarning]
    ELSE [origins |-> IF Cardinality(origins) < _key_origins_max
                      THEN origins \cup {[key |-> key, text |-> normalized]}
                      ELSE origins,
          warning |-> NoWarning]

\* ShapeCache.set of a memory-only cache: it returns without an await
TrackedSet ==
    /\ tracker.stage = "on" /\ tracker.sets < MaxTracked
    /\ \E t \in TrackTexts, v \in TrackValues :
         LET normalized == normalize_key(t)
             key == _hash_key(normalized)
             tracked == _track_collision(tracker.key_origins, key, normalized)
         IN  /\ tracker' = [tracker EXCEPT !.key_origins = tracked.origins,
                                            !.warning = tracked.warning,
                                            !.sets = @ + 1,
                                            !.last = [text |-> t, response |-> v]]
             /\ memory' = MemSet(memory, key, v)
    /\ UNCHANGED <<bucket, storage, in_flight, eventSet, nextEvent, memory_hits,
                   storage_hits, misses, pc, op, text, ev, new_ev, ret, how,
                   completed, task, orphan, calls, genVars, exceptTracker>>

InitTracker ==
    /\ InitBase
    /\ RegistryOff
    /\ HealthOff
    /\ MapperOff
    /\ SamplerOff
    /\ StatsOff
    /\ KeyingOff
    /\ ClientOff
    /\ tracker = [stage |-> "on", key_origins |-> {}, warning |-> NoWarning, sets |-> 0,
                  last |-> [text |-> <<>>, response |-> None]]

NextTracker == TrackedSet

SpecTracker == InitTracker /\ [][NextTracker]_vars

\* ------------------------------------------------------- ShapeCache.stats
\* round(num / den, 3) in thousandths: the nearest thousandth, a tie going to
\* the even one
Round3(num, den) ==
    LET q == (1000 * num) \div den
        r == (1000 * num) % den
    IN  IF 2 * r > den THEN q + 1
        ELSE IF 2 * r < den THEN q
        ELSE IF q % 2 = 0 THEN q ELSE q + 1

\* mutant: the total is read with the other counters, after the count
StatsDict_FreshTotal(total, storage_count) ==
    [memory_cache_size |-> Len(memory), storage_cache_size |-> storage_count,
     memory_hits |-> memory_hits, storage_hits |-> storage_hits, misses |-> misses,
     hit_rate |-> Round3(memory_hits + storage_hits,
                         Max(memory_hits + storage_hits + misses, 1))]

\* lines 313-322: the dictionary stats() returns, hit_rate in thousandths;
\* total is the local of line 298
StatsDict(total, storage_count) ==
    [memory_cache_size |-> Len(memory), storage_cache_size |-> storage_count,
     memory_hits |-> memory_hits, storage_hits |-> storage_hits, misses |-> misses,
     hit_rate |-> Round3(memory_hits + storage_hits, Max(total, 1))]

NoStats == [hit_rate |-> 0]

\* line 298, then count_stored_shapes: 0 at once without a bucket, else
\* `await run_in_executor(_count_sync)`
StatsStart ==
    /\ stats_call.stage = "idle"
    /\ LET total == memory_hits + storage_hits + misses
       IN  IF ~bucket
           THEN stats_call' = [stage |-> "done", total |-> total, storage_count |-> 0,
                               result |-> StatsDict(total, 0)]
           ELSE stats_call' = [stage |-> "counting", total |-> total, storage_count |-> 0,
                               result |-> NoStats]
    /\ UNCHANGED <<baseVars, exceptStats>>

\* _count_sync on a worker thread: the number of blobs, 0 when listing raises
_count_sync ==
    /\ stats_call.stage = "counting"
    /\ \E fail \in BOOLEAN :
         stats_call' = [stats_call EXCEPT
                          !.stage = "counted",
                          !.storage_count =
                              IF fail THEN 0
                              ELSE Cardinality({k \in Keys : storage[k] # None})]
    /\ UNCHANGED <<baseVars, exceptStats>>

\* stats() resumes after the count and builds the dictionary, lines 302-322
StatsResume ==
    /\ stats_call.stage = "counted"
    /\ stats_call' = [stats_call EXCEPT
                         !.stage = "done",
                         !.result = StatsDict(stats_call.total, stats_call.storage_count)]
    /\ UNCHANGED <<baseVars, exceptStats>>

\* the texts of the callers that run beside stats()
StatsTexts == { <<"horse">> }

InitStats ==
    /\ bucket \in BOOLEAN
    /\ storage \in {[k \in Keys |-> None], [k \in Keys |-> StoredBlob]}
    /\ (~bucket => storage = [k \in Keys |-> None])
    /\ models = {}
    /\ InitCommon
    /\ RegistryOff
    /\ HealthOff
    /\ MapperOff
    /\ SamplerOff
    /\ stats_call = [stage |-> "idle", total |-> 0, storage_count |-> 0, result |-> NoStats]
    /\ KeyingOff
    /\ ClientOff
    /\ TrackerOff

NextStats ==
    \/ StatsStart
    \/ _count_sync
    \/ StatsResume
    \/ \E p \in Callers, t \in StatsTexts : CallGet(p, t)
    \/ \E p \in Callers, t \in StatsTexts, v \in SetValues : CallSet(p, t, v)
    \/ \E p \in Procs : _get_from_storage(p)
    \/ \E k \in Keys : OrphanReadDone(k)
    \/ \E p \in Callers : GetReadResume(p)
    \/ \E p \in Callers : GetWake(p)
    \/ \E p \in Callers : CancelGet(p)
    \/ \E p \in Procs : _set_in_storage(p)
    \/ \E p \in Procs : SetResume(p)

SpecStats == InitStats /\ [][NextStats]_vars

\* ---------------------------------------------------------- point_sampler
RECURSIVE SumSeq(_)
SumSeq(q) == IF q = <<>> THEN 0 ELSE Head(q) + SumSeq(Tail(q))

\* int(np.argmax(areas)): the first index of the largest area
argmax(areas) ==
    CHOOSE i \in 1..Len(areas) :
        /\ \A j \in 1..Len(areas) : areas[j] <= areas[i]
        /\ \A j \in 1..(i - 1) : areas[j] < areas[i]

\* sample_from_part_meshes, lines 53-75: the points each mesh is to give.
\* (fractions * total_points).astype(int) is the floor of area * total / sum.
points_per_part(areas, total_points) ==
    LET n == Len(areas)
        total_area == SumSeq(areas)
    IN  IF total_area <= 0
        THEN LET even == [i \in 1..n |-> total_points \div n]
             IN  [even EXCEPT ![n] = @ + (total_points - SumSeq(even))]
        ELSE LET base == [i \in 1..n |->
                            Max((areas[i] * total_points) \div total_area, 1)]
                 diff == total_points - SumSeq(base)
                 largest_idx == argmax(areas)
             IN  IF diff > 0 THEN [base EXCEPT ![largest_idx] = @ + diff]
                 ELSE IF diff < 0 THEN [base EXCEPT ![largest_idx] = Max(1, @ + diff)]
                 ELSE base

\* lines 81-89: the part ids of the points, mesh after mesh; a mesh that is to
\* give no point is skipped
RECURSIVE part_ids_of(_, _)
part_ids_of(alloc, i) ==
    IF i > Len(alloc) THEN <<>>
    ELSE [k \in 1..Max(alloc[i], 0) |-> i - 1] \o part_ids_of(alloc, i + 1)

AreaLists == UNION { [1..n -> 0..MaxArea] : n \in 1..MaxParts }

\* lines 53-75
Allocate ==
    /\ sampler.stage = "start" /\ sampler.fn = "part_meshes"
    /\ sampler' = [sampler EXCEPT
                      !.stage = "allocated",
                      !.points_per_part = points_per_part(sampler.areas, sampler.total_points)]
    /\ UNCHANGED <<baseVars, exceptSampler>>

\* lines 77-94
SampleParts ==
    /\ sampler.stage = "allocated"
    /\ sampler' = [sampler EXCEPT !.stage = "done",
                                   !.part_ids = part_ids_of(sampler.points_per_part, 1)]
    /\ UNCHANGED <<baseVars, exceptSampler>>

\* sample_from_labeled_mesh, lines 115-121: the length check, then
\* trimesh.sample.sample_surface gives total_points samples, or fewer when
\* faces have no area; a sample is a point (numbered from 1) and its face
SampleSurface ==
    /\ sampler.stage = "start" /\ sampler.fn = "labeled_mesh"
    /\ IF Len(sampler.face_labels) # sampler.faces
       THEN sampler' = [sampler EXCEPT !.stage = "done", !.raised = "ValueError"]
       ELSE \E k \in 0..sampler.total_points :
              \E fi \in [1..k -> 0..(sampler.faces - 1)] :
                 sampler' = [sampler EXCEPT !.stage = "sampled", !.sampled = k,
                                            !.positions = [j \in 1..k |-> j],
                                            !.face_indices = fi]
    /\ UNCHANGED <<baseVars, exceptSampler>>

\* face_labels[face_indices].astype(np.uint8)
LabelsOf(face_labels, fi) == [j \in 1..Len(fi) |-> face_labels[fi[j] + 1] % 256]

\* lines 123-142: pad to total_points with samples drawn again from those at
\* hand, or with the zero point and face index 0 when there is none; then
\* label the points by their faces
PadAndLabel ==
    /\ sampler.stage = "sampled"
    /\ LET k == sampler.sampled
           deficit == sampler.total_points - k
       IN  IF deficit = 0
           THEN sampler' = [sampler EXCEPT
                              !.stage = "done",
                              !.part_ids = LabelsOf(sampler.face_labels, sampler.face_indices)]
           ELSE IF k > 0
           THEN \E pad \in [1..deficit -> 1..k] :
                  LET pos == sampler.positions \o [j \in 1..deficit |-> sampler.positions[pad[j]]]
                      fi == sampler.face_indices \o
                                [j \in 1..deficit |-> sampler.face_indices[pad[j]]]
                  IN  sampler' = [sampler EXCEPT
                                     !.stage = "done", !.positions = pos, !.face_indices = fi,
                                     !.part_ids = LabelsOf(sampler.face_labels, fi)]
           ELSE LET fi == [j \in 1..sampler.total_points |-> 0]
                IN  sampler' = [sampler EXCEPT
                                   !.stage = "done",
                                   !.positions = [j \in 1..sampler.total_points |-> 0],
                                   !.face_indices = fi,
                                   !.part_ids = LabelsOf(sampler.face_labels, fi)]
    /\ UNCHANGED <<baseVars, exceptSampler>>

InitSampler ==
    /\ InitBase
    /\ RegistryOff
    /\ HealthOff
    /\ MapperOff
    /\ StatsOff
    /\ KeyingOff
    /\ ClientOff
    /\ TrackerOff
    /\ \/ \E areas \in AreaLists, total \in 1..MaxPoints :
            sampler = [fn |-> "part_meshes", stage |-> "start", areas |-> areas,
                       total_points |-> total, points_per_part |-> <<>>, part_ids |-> <<>>]
       \/ \E faces \in 1..MaxMeshFaces, total \in 1..(MaxPoints - 2) :
            \E labels \in [1..faces -> 0..MaxLabel] \cup [1..(faces + 1) -> {0}] :
               sampler = [fn |-> "labeled_mesh", stage |-> "start", faces |-> faces,
                          face_labels |-> labels, total_points |-> total,
                          sampled |-> 0, positions |-> <<>>, face_indices |-> <<>>,
                          part_ids |-> <<>>, raised |-> ""]

NextSampler ==
    \/ Allocate
    \/ SampleParts
    \/ SampleSurface
    \/ PadAndLabel

SpecSampler == InitSampler /\ [][NextSampler]_vars

\* ======================================================================
\* Properties of the result cache (SpecCache)
\* ======================================================================

Resolvers(k) == { p \in Callers : pc[p] = "get_read" /\ KeyOf(text[p]) = k }
Waiters(k) == { p \in Callers : pc[p] = "get_wait" /\ KeyOf(text[p]) = k }

\* C1: overlapping get() calls for one key that is absent from memory, with a
\* durable backend: one caller (the resolver) holds the only durable read of
\* get() for that key; every other caller holds no read, and waits on the
\* resolver's completion signal or has been released by it.
C1_OneResolverPerKey ==
    \A k \in Keys :
        /\ Cardinality(Resolvers(k)) <= 1
        /\ \A r \in Resolvers(k) : task[r].kind = "read" /\ task[r].key = k
        /\ \A w \in Waiters(k) :
              /\ task[w] = NoTask
              /\ ev[w] \notin eventSet => \E r \in Resolvers(k) : new_ev[r] = ev[w]

\* C1 witness: a resolver whose read has come back while two more callers of
\* the same key wait on its signal
C1_Witness ==
    \E r \in Callers :
        /\ pc[r] = "get_read" /\ task[r].state = "finished"
        /\ Cardinality({ w \in Callers : pc[w] = "get_wait" /\ ev[w] = new_ev[r]
                                         /\ KeyOf(text[w]) = KeyOf(text[r]) }) >= 2

\* the durable reads of key k that a coroutine is awaiting (reads abandoned
\* by a cancelled caller are not even counted)
AwaitedReads(k) ==
    { p \in Callers : task[p].kind = "read" /\ task[p].state = "running" /\ task[p].key = k }

\* C2: within one key at most one durable read is in flight, whichever cache
\* operation (get or preload_to_memory) started it.
C2_OneReadInFlightPerKey ==
    \A k \in Keys : Cardinality(AwaitedReads(k)) <= 1

\* C3: the in-flight registry holds key k exactly while a resolver of k is
\* awaiting its durable read, and a completion signal is set exactly when it
\* has left the registry (hit, miss, failure, cancellation).
C3_RegistryTracksResolver ==
    /\ \A k \in Keys :
          in_flight[k] # 0 <=> \E r \in Resolvers(k) : new_ev[r] = in_flight[k]
    /\ \A e \in 1..(nextEvent - 1) :
          e \in eventSet <=> ~(\E k \in Keys : in_flight[k] = e)

\* C3 witness: a resolver was cancelled, the registry is empty and a waiter
\* holds its released signal
C3_Witness ==
    /\ how = "cancelled"
    /\ \A k \in Keys : in_flight[k] = 0
    /\ \E w \in Callers : pc[w] = "get_wait" /\ ev[w] \in eventSet

\* C4: a failed durable read makes get() return absent and count a miss; the
\* memory tier holds the new value once set() has written it, a failed
\* durable write leaves it alone and set() returns normally.
C4_DurableFailuresAbsorbed ==
    [][ \A p \in Callers :
          /\ ( pc[p] = "get_read" /\ task[p].state = "finished" /\ task[p].failed
               /\ pc'[p] # "get_read" /\ how' # "cancelled" )
             => /\ how' = "read_failed"
                /\ misses' = misses + 1
                /\ storage_hits' = storage_hits /\ memory_hits' = memory_hits
                /\ memory' = memory
                /\ op[p] = "get" => ret' = [p |-> p, val |-> None]
          /\ ( pc[p] = "idle" /\ pc'[p] = "set_write" )
             => /\ MemHas(memory', task'[p].key)
                /\ MemVal(memory', task'[p].key) = task'[p].result
          /\ ( task[p].kind = "write" /\ task[p].state = "running"
               /\ task'[p].state = "finished" /\ task'[p].failed )
             => memory' = memory /\ pc' = pc /\ storage' = storage
          /\ ( pc[p] = "set_write" /\ task[p].state = "finished" /\ task[p].failed
               /\ pc'[p] # "set_write" )
             => ret' = [p |-> p, val |-> Returned] /\ memory' = memory
      ]_vars

\* C4 witness: a get() has come back from a failed durable read, and the
\* durable write of a set() has failed while memory holds the value it wrote
C4_Witness ==
    /\ how = "read_failed" /\ misses >= 1
    /\ \E p \in Callers :
          /\ pc[p] = "set_write" /\ task[p].state = "finished" /\ task[p].failed
          /\ MemHas(memory, task[p].key)
          /\ MemVal(memory, task[p].key) = task[p].result

\* ======================================================================
\* Properties of the orchestrator (Spec)
\* ======================================================================

\* the recorded generations inside the trailing window at clock reading t
InWindow(t) ==
    { i \in DOMAIN generation_timestamps : generation_timestamps[i] >= t - WindowSeconds }

SetMin(S) == CHOOSE x \in S : \A y \in S : x <= y

\* C5: a generate() whose cache lookup hits returns the stored result with
\* cached=true; it submits no model work, schedules no cache write, leaves
\* the registry and the generation window alone, and counts as a cache hit,
\* whatever the state of the generation budget.
C5_CacheHitBypassesPipeline ==
    [][ \A p \in Requesters, t \in GenTexts :
          ( CallGenerate(p, t) /\ MemHas(memory, KeyOf(t)) )
          => /\ ret' = [p |-> p, val |-> [MemVal(memory, KeyOf(t)) EXCEPT !.cached = TRUE]]
             /\ pc' = pc /\ task' = task
             /\ models' = models /\ starts' = starts /\ orphanGen' = orphanGen
             /\ generation_timestamps' = generation_timestamps
             /\ metrics' = [metrics EXCEPT !.requests_total = @ + 1, !.cache_hits = @ + 1]
             /\ MemKeys(memory') = MemKeys(memory)
      ]_vars

\* C5 witness: the last generate() step was a cache hit taken while the
\* generation budget of the window was used up
C5_Witness ==
    /\ lastEvent.kind = "cache_hit"
    /\ lastEvent.recent >= generation_rate_limit_per_minute
    /\ ret.p \in Requesters /\ ret.val.kind = "resp" /\ ret.val.cached

\* C6: a cache miss that finds the window full fails with RateLimited and
\* changes nothing: no model work, no cache write, no timestamp, no counter.
C6_RateLimitedTouchesNothing ==
    [][ \A p \in Requesters, t \in GenTexts :
          ( /\ CallGenerate(p, t)
            /\ ~MemHas(memory, KeyOf(t))
            /\ Cardinality(InWindow(now)) >= generation_rate_limit_per_minute )
          => /\ ret'.p = p /\ ret'.val.kind = "error" /\ ret'.val.err = "RateLimited"
             /\ pc' = pc /\ task' = task
             /\ models' = models /\ starts' = starts /\ orphanGen' = orphanGen
             /\ generation_timestamps' = generation_timestamps
             /\ metrics' = metrics
             /\ memory' = memory /\ storage' = storage
      ]_vars

\* C6 witness: a request has just been turned away by the admission check
C6_Witness ==
    /\ lastEvent.kind = "rate_limited"
    /\ ret.val.kind = "error" /\ ret.val.err = "RateLimited"
    /\ metrics.requests_total >= generation_rate_limit_per_minute

\* C7: in any trailing window, the generations that passed the admission
\* check and were handed to the worker pool number at most the budget.
C7_StartsWithinBudget ==
    \A i \in DOMAIN starts :
        Cardinality({ j \in DOMAIN starts :
                        starts[j] <= starts[i] /\ starts[j] > starts[i] - WindowSeconds })
            <= generation_rate_limit_per_minute

C9_PrimaryNeedsHalfTheParts ==
    \A p \in Requesters :
        ( /\ task[p].kind = "gen" /\ task[p].state = "finished"
          /\ task[p].result.kind = "ok" /\ task[p].result.geometry = "primary" )
        => /\ 2 * task[p].result.labels >= num_parts(get_template(task[p].text))
           /\ task[p].result.labels >= 1

\* C10: with a reference image, a non-fatal error of the primary mesh step
\* does not fail the request: the fallback attempt runs.
C10_PrimaryErrorFallsBack ==
    \A p \in Requesters :
        ( task[p].kind = "gen" /\ task[p].state = "finished" )
        => ~( /\ task[p].result.kind = "raise"
              /\ task[p].result.step = "partcrafter"
              /\ task[p].result.exc = "error" )

\* a generate() call of p that awaits _generate_sync ends in this step, and
\* not through the deadline
Resumes(p) ==
    /\ pc[p] = "gen_run" /\ task[p].state = "finished"
    /\ pc'[p] = "idle" /\ lastEvent'.kind # "timeout"

\* C11: when a step of the fallback block raised something other than an
\* out-of-memory error, _generate_sync still produces the mock point cloud
\* and generate() returns a response.
C11_FallbackErrorsAbsorbed ==
    [][ \A p \in Requesters :
          ( Resumes(p)
            /\ task[p].trace.fallback \in {"load_error", "error", "unload_error"} )
          => /\ task[p].result.kind = "ok"
             /\ task[p].result.geometry = "mock"
             /\ ret'.p = p /\ ret'.val.kind = "resp"
      ]_vars

\* C11 witness: a response has been returned for a run that had an image and
\* whose fallback failed
C11_Witness ==
    /\ lastEvent.kind = "generated"
    /\ ret.val.kind = "resp" /\ ~ret.val.cached
    /\ ret.val.pipeline = "sdxl_turbo+mock"

\* C12: generate() fails only with RateLimited, Timeout, OutOfMemory or
\* ValidationFailed.
C12_OnlyFourFailures ==
    ret.val.kind = "error"
    => ret.val.err \in {"RateLimited", "Timeout", "OutOfMemory", "ValidationFailed"}

\* C13: a generate() call that ends while its worker-pool task is still
\* running ends after the deadline, with the Timeout error, and leaves the
\* task running; whenever the deadline has passed the call can end at once.
C13_TimeoutIsDistinctAndPrompt ==
    /\ [][ \A p \in Requesters :
             /\ ( pc[p] = "gen_run" /\ task[p].state = "running" /\ pc'[p] # "gen_run" )
                => /\ now >= task[p].started + generation_timeout_seconds
                   /\ ret' = [p |-> p, val |-> Failure("Timeout")]
                   /\ orphanGen' = Append(orphanGen, task[p].text)
             /\ ( pc[p] = "gen_run" /\ pc'[p] = "idle" /\ lastEvent'.kind = "timeout" )
                => ret' = [p |-> p, val |-> Failure("Timeout")]
         ]_vars
    /\ [] ( \A p \in Requesters :
              ( /\ pc[p] = "gen_run" /\ task[p].state = "running"
                /\ now >= task[p].started + generation_timeout_seconds )
              => ENABLED GenerateTimeout(p) )

\* C13 witness: a call has ended with Timeout while its work was running
C13_Witness ==
    /\ lastEvent.kind = "timeout"
    /\ ret.val = Failure("Timeout")
    /\ Len(orphanGen) >= 1

\* C14: an out-of-memory error of the image step, of the primary mesh step or
\* of the fallback block leaves _generate_sync as an exception, and generate()
\* reclaims memory and fails with OutOfMemory.
C14_OomReclaimsAndSurfaces ==
    [][ \A p \in Requesters :
          ( Resumes(p)
            /\ "oom" \in {task[p].trace.image, task[p].trace.primary, task[p].trace.fallback} )
          => /\ task[p].result.kind = "raise"
             /\ ret' = [p |-> p, val |-> Failure("OutOfMemory")]
             /\ lastEvent'.reclaim
      ]_vars

\* C14 witness: one request has failed with OutOfMemory after the reclaim, and
\* the fallback block of another has just run out of memory
C14_Witness ==
    /\ lastEvent.kind = "failed" /\ lastEvent.reclaim
    /\ ret.val = Failure("OutOfMemory")
    /\ \E p \in Requesters :
          /\ pc[p] = "gen_run" /\ task[p].state = "finished"
          /\ task[p].trace.fallback = "oom"

\* a step of the detached write task w, once it has been scheduled
WriterStep(w) ==
    /\ pc[w] # "idle"
    /\ (pc'[w] # pc[w] \/ task'[w] # task[w])

\* C15: generate() returns its response when the cache write is only
\* scheduled; no step of the write task, failed upload included, touches a
\* request, the metrics or the registry, and the write task never raises.
C15_CacheWriteIsDetached ==
    [][ \A p \in Requesters :
          LET w == WriterOf(p) IN
          /\ ( pc[p] = "gen_run" /\ pc'[p] = "idle" /\ lastEvent'.kind = "generated" )
             => /\ ret'.p = p /\ ret'.val.kind = "resp"
                /\ pc'[w] = "scheduled" /\ task'[w].result = ret'.val
                /\ memory' = memory /\ storage' = storage
          /\ WriterStep(w)
             => /\ \A q \in Requesters : pc'[q] = pc[q] /\ task'[q] = task[q]
                /\ metrics' = metrics /\ generation_timestamps' = generation_timestamps
                /\ models' = models /\ starts' = starts /\ lastEvent' = lastEvent
                /\ (ret' = ret \/ ret' = [p |-> w, val |-> Returned])
          /\ ( WriterStep(w) /\ task[w].kind = "write" /\ task[w].state = "running"
               /\ task'[w].failed )
             => memory' = memory /\ storage' = storage
      ]_vars

\* C15 witness: the upload of a detached write has failed after the response
\* it stores was returned, while another request is being served
C15_Witness ==
    \E p \in Requesters :
        /\ pc[WriterOf(p)] = "set_write"
        /\ task[WriterOf(p)].state = "finished" /\ task[WriterOf(p)].failed
        /\ \E q \in Requesters : q # p /\ pc[q] # "idle"

\* a generate() call for text t has returned a generated result
HasReturnedResult(t) ==
    \/ MemHas(memory, KeyOf(t))
    \/ \E q \in Requesters :
          pc[WriterOf(q)] = "scheduled" /\ text[WriterOf(q)] = t

\* C16 as stated: a generate() issued after a first call for the same text
\* has returned a result is served from the cache and starts no generation.
C16_RepeatIsCacheHit ==
    [][ \A p \in Requesters, t \in GenTexts :
          ( CallGenerate(p, t) /\ HasReturnedResult(t) )
          => /\ ret'.p = p /\ ret'.val.kind = "resp" /\ ret'.val.cached
             /\ starts' = starts
      ]_vars

SamePayload(a, b) == [a EXCEPT !.cached = FALSE] = [b EXCEPT !.cached = FALSE]

\* C16 amended: the response generate() returns is the one its write task
\* stores; the write puts it in memory under the key of the text; nothing but
\* a write for the key changes the payload memory holds for it; and a
\* generate() that finds the entry returns it with cached=true and starts no
\* generation.
C16_RepeatAfterWriteIsCacheHit ==
    [][ /\ \A p \in Requesters :
             LET w == WriterOf(p) IN
             /\ ( pc[p] = "gen_run" /\ pc'[p] = "idle" /\ lastEvent'.kind = "generated" )
                => task'[w].result = ret'.val /\ text'[w] = text[p]
             /\ ( pc[w] = "scheduled" /\ pc'[w] # "scheduled" )
                => /\ MemHas(memory', KeyOf(text[w]))
                   /\ MemVal(memory', KeyOf(text[w])) = task[w].result
        /\ \A k \in Keys :
             ( /\ MemHas(memory, k) /\ MemHas(memory', k)
               /\ ~ \E w \in Writers : pc[w] = "scheduled" /\ pc'[w] # "scheduled"
                                        /\ KeyOf(text[w]) = k )
             => SamePayload(MemVal(memory', k), MemVal(memory, k))
        /\ \A p \in Requesters, t \in GenTexts :
             ( CallGenerate(p, t) /\ MemHas(memory, KeyOf(t)) )
             => /\ ret'.p = p /\ ret'.val.cached
                /\ SamePayload(ret'.val, MemVal(memory, KeyOf(t)))
                /\ starts' = starts /\ task' = task
      ]_vars

\* C16 witness: one generation, then its write, then a second call served
\* from the cache
C16_Witness ==
    /\ lastEvent.kind = "cache_hit"
    /\ ret.val.kind = "resp" /\ ret.val.cached
    /\ Len(starts) = 1
    /\ metrics.requests_total = 2 /\ metrics.cache_hits = 1

\* C17: a result whose points come from the mock block is tagged "mock", has
\* max_points points and part ids below the template's part count.
C17_MockIsTaggedMock ==
    \A p \in Requesters :
        ( /\ task[p].kind = "gen" /\ task[p].state = "finished"
          /\ task[p].result.kind = "ok" /\ task[p].result.geometry = "mock" )
        => /\ task[p].result.pipeline = "mock"
           /\ task[p].result.points = 2048
           /\ task[p].result.labels <= num_parts(get_template(task[p].text))

\* C18: at most one run of the model pipeline is in progress per cache key.
C18_OneGenerationPerKey ==
    \A k \in Keys :
        Cardinality({ p \in Requesters :
                        /\ task[p].kind = "gen" /\ task[p].state = "running"
                        /\ KeyOf(task[p].text) = k }) <= 1

\* two spellings of one concept: the same words up to case, punctuation,
\* articles and plural
SameConcept(t, t2) ==
    \/ t = t2
    \/ {t, t2} = { <<"horse">>, <<"The", "horses!">> }

C20_MemoryFirstThenPromote ==
    [][ \A p \in Callers :
          /\ \A t \in GetTexts :
                ( CallGet(p, t) /\ MemHas(memory, KeyOf(t)) )
                => /\ how' = "memory_hit"
                   /\ ret' = [p |-> p, val |-> MemVal(memory, KeyOf(t))]
                   /\ pc'[p] = "idle" /\ task'[p] = NoTask
                   /\ memory_hits' = memory_hits + 1
                   /\ storage_hits' = storage_hits /\ misses' = misses
          /\ ( task[p].kind = "read" /\ task[p].state = "running"
               /\ task'[p].kind = "read" /\ task'[p].state = "finished"
               /\ ~task'[p].failed )
             => task'[p].result = storage[task[p].key]
          /\ ( pc[p] = "get_read" /\ task[p].state = "finished"
               /\ task[p].result # None /\ pc'[p] # "get_read" /\ how' # "cancelled" )
             => /\ how' = "storage_hit"
                /\ storage_hits' = storage_hits + 1
                /\ MemHas(memory', KeyOf(text[p]))
                /\ MemVal(memory', KeyOf(text[p])) = task[p].result
                /\ op[p] = "get" => ret' = [p |-> p, val |-> task[p].result]
      ]_vars

\* C20 witness: three calls: a set(), a get() that the bucket served with the
\* value the set() uploaded and that promoted it, and a get() served by memory
C20_Witness ==
    /\ bucket /\ calls = 3
    /\ \A k \in Keys : storage[k] # StoredBlob
    /\ how = "memory_hit" /\ ret.val \in SetValues
    /\ storage_hits = 1 /\ memory_hits = 1

\* C21: while a name stays in the registry, the factory of the name has run at
\* most once and every get_or_load of the name returned the same instance
C21_LazySingleton ==
    \A n \in LazyNames :
        registry_models[n] # 0 =>
            /\ factory_calls[n] <= 1
            /\ Cardinality(handed[n]) <= 1

\* a backend is configured and _connect_sync did not reach it
Degraded == lifespan = "serving" /\ bucket_name /\ ~reached

\* C22: once startup is over, is_connected is true exactly when no backend is
\* configured or the configured one was reached; with a configured backend
\* that was not reached, get() answers from memory and set() stores in memory
\* at once, without a worker-pool task or a blob; and the readiness probe
\* answers 503 / not_ready exactly when the cache is not connected or no model
\* is loaded while loading is not skipped
C22_ConnectedAndReady ==
    /\ [](lifespan = "serving" => (is_connected <=> (~bucket_name \/ reached)))
    /\ [](Degraded => /\ \A p \in Procs : task[p] = NoTask
                      /\ \A k \in Keys : storage[k] = None)
    /\ [][ /\ \A t \in GetTexts :
                (Degraded /\ CallGet(HealthCaller, t)) =>
                    (/\ pc'[HealthCaller] = "idle"
                     /\ ret'.val = IF MemHas(memory, KeyOf(t))
                                   THEN MemVal(memory, KeyOf(t)) ELSE None)
           /\ \A t \in CallTexts, v \in SetValues :
                (Degraded /\ CallSet(HealthCaller, t, v)) =>
                    (/\ pc'[HealthCaller] = "idle"
                     /\ MemHas(memory', KeyOf(t))
                     /\ MemVal(memory', KeyOf(t)) = v)
           /\ Readiness =>
                (LET down == ~(~bucket_name \/ reached) \/ (models = {} /\ ~skip_model_load)
                 IN  /\ probe'.status_code = IF down THEN 503 ELSE 200
                     /\ probe'.status = IF down THEN "not_ready" ELSE "ready") ]_vars

\* the backend was configured and not reached, a set() and a get() were served
\* from memory, and the probe answered 503 with a model loaded
C22_Witness ==
    /\ Degraded
    /\ memory # <<>> /\ memory_hits > 0
    /\ models # {}
    /\ probe # NoProbe /\ probe.status_code = 503 /\ probe.models_loaded # {}

\* the masks given to the run, in input order, and those that cover face f
GivenMasks == all_mask_entries(mapper.views)

Covering(f) == { i \in 1..Len(GivenMasks) : f \in face_indices(GivenMasks[i]) }

FirstAt(part) == SetMin({ i \in 1..Len(GivenMasks) : GivenMasks[i].part = part })

GivenParts == { GivenMasks[i].part : i \in 1..Len(GivenMasks) }

\* the index of a part name: how many other names are first seen before it
FirstSeenIndex(part) ==
    Cardinality({ q \in GivenParts : FirstAt(q) < FirstAt(part) })

\* C23: when the run has returned, a face covered by two masks of different
\* area carries the part of the smaller one; with more masks on the face, the
\* part of the one mask that is smaller than all the others
C23_SmallestMaskWins ==
    mapper.stage = "done" =>
        \A f \in Faces : \A i \in Covering(f) :
            ( /\ Cardinality(Covering(f)) >= 2
              /\ \A j \in Covering(f) \ {i} : GivenMasks[i].area < GivenMasks[j].area )
            => mapper.face_labels[f] = FirstSeenIndex(GivenMasks[i].part)

\* a face under exactly two masks of different views, the larger one given
\* first and for another part, carries the part of the smaller one
C23_Witness ==
    /\ mapper.stage = "done" /\ Len(mapper.views) = 2
    /\ \E f \in Faces : \E i, j \in Covering(f) :
         /\ Covering(f) = {i, j} /\ i < j
         /\ i <= Len(mapper.views[1].masks) /\ j > Len(mapper.views[1].masks)
         /\ GivenMasks[i].area > GivenMasks[j].area
         /\ GivenMasks[i].part # GivenMasks[j].part
         /\ mapper.face_labels[f] = FirstSeenIndex(GivenMasks[j].part)

\* C24: the run returns one label per face and none is -1: all 0 without
\* masks or when no face was labeled directly, and otherwise the first-seen
\* index of a part that occurs in the masks
C24_EveryFaceLabeled ==
    mapper.stage = "done" =>
        /\ DOMAIN mapper.face_labels = Faces
        /\ \A f \in Faces : mapper.face_labels[f] # -1
        /\ IF GivenMasks = <<>> \/ \A f \in Faces : mapper.direct[f] = -1
           THEN \A f \in Faces : mapper.face_labels[f] = 0
           ELSE \A f \in Faces :
                    mapper.face_labels[f] \in { FirstSeenIndex(q) : q \in GivenParts }

\* masks were given, no face was labeled directly, and every face got 0
C24_Witness ==
    /\ mapper.stage = "done" /\ GivenMasks # <<>>
    /\ \A f \in Faces : mapper.direct[f] = -1 /\ mapper.face_labels[f] = 0

\* C25: for part meshes of positive total area and a budget of at least one
\* point per mesh, every mesh is given at least 1 point, the points given sum
\* to total_points, and only the largest mesh departs from its rounded share
C25_AllocationIsExact ==
    ( /\ sampler.stage \in {"allocated", "done"} /\ sampler.fn = "part_meshes"
      /\ SumSeq(sampler.areas) > 0
      /\ sampler.total_points >= Len(sampler.areas) )
    => /\ \A i \in 1..Len(sampler.areas) : sampler.points_per_part[i] >= 1
       /\ SumSeq(sampler.points_per_part) = sampler.total_points
       /\ \A i \in 1..Len(sampler.areas) :
             i # argmax(sampler.areas) =>
                 sampler.points_per_part[i] =
                     Max((sampler.areas[i] * sampler.total_points)
                             \div SumSeq(sampler.areas), 1)

\* C26: with a label per face, the labeled sampler returns total_points
\* points; a padded point is one of the sampled points with its label; and
\* without any sample the points are the zero point and every part id is 0
C26_LabeledSamplerIsExact ==
    ( /\ sampler.stage = "done" /\ sampler.fn = "labeled_mesh"
      /\ Len(sampler.face_labels) = sampler.faces )
    => /\ sampler.raised = ""
       /\ Len(sampler.positions) = sampler.total_points
       /\ Len(sampler.part_ids) = sampler.total_points
       /\ \A j \in (sampler.sampled + 1)..sampler.total_points :
             IF sampler.sampled = 0
             THEN sampler.positions[j] = 0 /\ sampler.part_ids[j] = 0
             ELSE \E i \in 1..sampler.sampled :
                     /\ sampler.positions[j] = sampler.positions[i]
                     /\ sampler.part_ids[j] = sampler.part_ids[i]

\* the step is the return of a get() call
GetReturns == completed' = completed + 1

\* C27: every get() that returns adds 1 to exactly one of memory_hits,
\* storage_hits and misses and nothing else changes them, so their sum is the
\* number of get() calls that returned
C27_OneCounterPerGet ==
    /\ [](memory_hits + storage_hits + misses = completed)
    /\ [][ /\ GetReturns =>
               \/ /\ memory_hits' = memory_hits + 1
                  /\ storage_hits' = storage_hits /\ misses' = misses
               \/ /\ storage_hits' = storage_hits + 1
                  /\ memory_hits' = memory_hits /\ misses' = misses
               \/ /\ misses' = misses + 1
                  /\ memory_hits' = memory_hits /\ storage_hits' = storage_hits
           /\ ~GetReturns => UNCHANGED <<memory_hits, storage_hits, misses>> ]_vars

\* C27: the hit_rate stats() reports is, to the third decimal, the hits it
\* reports over the larger of 1 and the sum of the counters it reports
C27_HitRate ==
    stats_call.stage = "done" =>
        LET d == stats_call.result
        IN  d.hit_rate = Round3(d.memory_hits + d.storage_hits,
                                Max(d.memory_hits + d.storage_hits + d.misses, 1))

\* nothing is left of the text after lower-casing, punctuation stripping and
\* article removal
NoTokenLeft(t) == FilterSeq(NotArticle, FilterSeq(NonEmptyToken, MapSeq(CleanToken, t))) = <<>>

\* C28: when the cleaning leaves no token, normalize_key returns the trimmed
\* input as it was given, and a text that is not empty never gets the empty key
C28_NeverEmptyKey ==
    keying.stage \in {"normalized", "hashed"} =>
        /\ NoTokenLeft(keying.text) => keying.normalized = keying.text
        /\ keying.text # <<>> => keying.normalized # <<>>

\* C30: a client that was rejected and comes back after the retry-after it
\* was given passes the admission check, unless a generation was recorded in
\* between
C30_RetryAfterIsEnough ==
    ( client.stage = "retried" /\ ~client.between ) => client.outcome = "admitted"

\* the resolver that registered the event the waiter p waits on
ResolverOf(p) == { q \in Callers : pc[q] = "get_read" /\ new_ev[q] = ev[p] }

\* C29: a caller of get() that waits on another caller's event is never left
\* with an unset event and no resolver, and it always leaves its wait (with
\* the promoted value or None, or cancelled itself) once the resolver's read
\* has ended or the resolver was cancelled
C29_WaitersReturn ==
    /\ [](\A p \in Callers :
            pc[p] = "get_wait" => (ev[p] \in eventSet \/ ResolverOf(p) # {}))
    /\ \A p \in Callers : (pc[p] = "get_wait") ~> (pc[p] # "get_wait")

\* a waiter has been woken and has returned the value its resolver promoted
C29_Witness ==
    /\ how = "waiter_hit" /\ ret.val = StoredBlob
    /\ \A p \in Callers : pc[p] # "get_wait"
    /\ eventSet # {}

\* the step creates the detached write task of requester p
SchedulesWrite(p) == pc[WriterOf(p)] # "scheduled" /\ pc'[WriterOf(p)] = "scheduled"

\* C31: a generate() call that returns a generated (non-cached) result creates
\* one write task, holding that result and the request text; a write task is
\* created in no other step, so cache hits and failed calls create none
C31_OneWritePerGeneratedResult ==
    [][ \A p \in Requesters :
          LET w == WriterOf(p) IN
          /\ ( pc[p] = "gen_run" /\ pc'[p] = "idle" /\ ret'.p = p
               /\ ret'.val.kind = "resp" )
             => /\ ~ret'.val.cached
                /\ SchedulesWrite(p)
                /\ task'[w].result = ret'.val /\ text'[w] = text[p]
                /\ \A q \in Requesters \ {p} :
                      pc'[WriterOf(q)] = pc[WriterOf(q)] /\ task'[WriterOf(q)] = task[WriterOf(q)]
          /\ SchedulesWrite(p)
             => /\ pc[p] = "gen_run" /\ pc'[p] = "idle"
                /\ ret' = [p |-> p, val |-> task'[w].result]
                /\ ret'.val.kind = "resp" /\ ~ret'.val.cached
      ]_vars

\* C31 witness: the first request has returned a fallback result and the
\* write of that result is scheduled
C31_Witness ==
    \E p \in Requesters :
        /\ pc[WriterOf(p)] = "scheduled"
        /\ ret = [p |-> p, val |-> task[WriterOf(p)].result]
        /\ ret.val.pipeline = "hunyuan3d_grounded_sam"
        /\ metrics.cache_hits = 0 /\ metrics.requests_total = 1

\* C32: when the fallback block has sampled its labeled points and the
\* unload of the fallback models then fails, the run still returns the
\* fallback points, tagged as the fallback pipeline
C32_UnloadIsBestEffort ==
    \A p \in Requesters :
        ( /\ task[p].kind = "gen" /\ task[p].state = "finished"
          /\ task[p].trace.fallback = "unload_error" )
        => /\ task[p].result.kind = "ok"
           /\ task[p].result.geometry = "fallback"
           /\ task[p].result.pipeline = "hunyuan3d_grounded_sam"

\* a part holds faces after the masks are projected, before the heuristic
HoldsFaces(part) ==
    /\ \E k \in 1..Len(mapper.unique) : mapper.unique[k] = part
    /\ CountLabel(mapper.direct, part_to_idx(mapper.unique, part)) > 0

\* C33: when the template names a left/right pair and, after the masks are
\* projected, one side holds faces and the other holds none (also when no view
\* gave a mask for the other side), the heuristic reflects the side that holds
\* faces onto the other; it changes only faces that were unlabeled.
C33_SymmetricFires ==
    mapper.stage \in {"fill", "done"} =>
        /\ \A f \in Faces : mapper.stage = "fill" /\ mapper.direct[f] # -1
                                => mapper.face_labels[f] = mapper.direct[f]
        /\ \A a \in PartNames :
              LET b == SymmetricPair(a, mapper.part_names)
              IN  (/\ \E i \in 1..Len(mapper.part_names) : mapper.part_names[i] = a
                   /\ b # ""
                   /\ HoldsFaces(a)
                   /\ ~HoldsFaces(b))
                  => <<a, b>> \in mapper.cloned

\* C34: the collision table never holds more than _key_origins_max entries
\* and never two texts for one key; a set() leaves every recorded pair in
\* place; when the key of the set() is recorded with another normalized text
\* the warning names the recorded text and the new one; and after every
\* set(), with a collision or a full table too, the memory tier holds the
\* new response under the key.
C34_CollisionTableFirstWins ==
    [][ tracker.stage = "on" =>
          LET normalized == normalize_key(tracker'.last.text)
              key == _hash_key(normalized)
          IN  /\ Cardinality(tracker'.key_origins) <= _key_origins_max
              /\ \A o, q \in tracker'.key_origins : o.key = q.key => o = q
              /\ tracker.key_origins \subseteq tracker'.key_origins
              /\ \A o \in tracker.key_origins :
                    o.key = key /\ o.text # normalized
                      => tracker'.warning = Collision(o.text, normalized, key)
              /\ MemHas(memory', key)
              /\ MemVal(memory', key) = tracker'.last.response ]_vars

\* the table is full, the last set() collided with a recorded text, and the
\* memory tier holds the response of that set()
C34_Witness ==
    /\ tracker.stage = "on"
    /\ Cardinality(tracker.key_origins) = _key_origins_max
    /\ tracker.warning.kind = "cache_key_collision"
    /\ tracker.warning.existing_text = <<"bird">>
    /\ tracker.warning.new_text = <<"fish">>
    /\ MemVal(memory, tracker.warning.hash) = tracker.last.response
    /\ tracker.last.response.payload = "B"

\* C35: requests_total equals the sum of cache_hits, partcrafter_successes,
\* fallback_successes and mock_fallbacks: every returned generate() call was
\* counted once in the total and once in one of the four.
C35_TotalIsSumOfOutcomes ==
    metrics.requests_total = metrics.cache_hits + metrics.partcrafter_successes
                               + metrics.fallback_successes + metrics.mock_fallbacks

\* C36: no get_or_load ends with the missing-model error, whatever the other
\* threads unload meanwhile.
C36_GetOrLoadNeverMisses ==
    \A th \in Threads : worker[th].error # "get_or_load: KeyError"

\* the names of a response are names of the template, in the template's order
NamesOf(names, template) ==
    /\ Len(names) <= Len(template.part_names)
    /\ names = SubSeq(template.part_names, 1, Len(names))

AnswersFor(val, t) ==
    val.kind = "resp" =>
        /\ val.template_type = get_template(t).template_type
        /\ NamesOf(val.part_names, get_template(t))

\* C37: a response to a request with text t, served from the cache or
\* generated, carries the template_type and part names of the template that
\* t resolves to, also when another spelling with the same cache key was
\* requested before.
C37_TemplateOfOwnText ==
    [][ \A p \in Requesters :
          /\ \A t \in SharedTexts :
                (CallGenerate(p, t) /\ pc'[p] = "idle") => AnswersFor(ret'.val, t)
          /\ (pc[p] = "gen_run" /\ pc'[p] = "idle") => AnswersFor(ret'.val, text[p]) ]_vars

\* C38: in every result of _generate_sync, from the primary, the fallback or
\* the mock block, every part id is an index into the part names of the result.
C38_PartIdsIndexPartNames ==
    \A p \in Requesters :
        ( /\ task[p].kind = "gen" /\ task[p].state = "finished"
          /\ task[p].result.kind = "ok" )
        => task[p].result.labels <= Len(task[p].result.part_names)

\* the step in which the generate() call of p ends with an error: at the
\* admission check of the call, or out of the wait for the pool
EndsInError(p) ==
    /\ ret'.p = p /\ ret'.val.kind = "error"
    /\ pc'[p] = "idle"
    /\ \/ pc[p] = "idle" /\ calls' = calls + 1
       \/ pc[p] = "gen_run"

\* a _generate_sync run ends in the pool, awaited or abandoned
WorkerEnds ==
    \/ \E p \in Requesters : /\ task[p].kind = "gen" /\ task[p].state = "running"
                              /\ task'[p].kind = "gen" /\ task'[p].state = "finished"
    \/ Len(orphanGen') < Len(orphanGen)

\* C39: the step in which a generate() call ends in RateLimited, Timeout,
\* OutOfMemory or GenerationFailed, the step in which a call enters the wait
\* for the pool, and the end of a pool run, awaited or abandoned, leave the
\* memory tier, the bucket, the generation timestamps and every counter of
\* the metrics as they were.
C39_FailureLeavesNoTrace ==
    [][ ( \/ \E p \in Requesters : EndsInError(p)
          \/ \E p \in Requesters : pc[p] = "idle" /\ pc'[p] = "gen_run"
          \/ WorkerEnds )
        => UNCHANGED <<memory, storage, generation_timestamps, metrics>> ]_vars

\* two calls have failed, one of them by timeout, the abandoned run has
\* ended in the pool (it loaded a fallback model), and nothing was recorded
C39_Witness ==
    /\ calls = 2
    /\ ret.val.kind = "error" /\ ret.val.err = "Timeout"
    /\ lastEvent.kind = "timeout"
    /\ orphanGen = <<>>
    /\ \A p \in Procs : task[p] = NoTask
    /\ "hunyuan3d_turbo" \in models
    /\ metrics = NewMetrics
    /\ generation_timestamps = <<>>
    /\ memory = <<>>
====
